---- MODULE Spec2Model ----
(***************************************************************************)
(* elm-graphql: translation of a schema-validated GraphQL document into    *)
(* Elm declarations (query-to-elm.ts) and JSON decoders                    *)
(* (query-to-decoder.ts).                                                  *)
(*                                                                         *)
(* GraphQL schema types, AST nodes, Elm types and decoder expressions are  *)
(* records of one shape per family, so that any two values of a family can *)
(* be compared.  Generated Elm expression text is kept as the tree the     *)
(* code concatenates it from.                                              *)
(***************************************************************************)
EXTENDS Integers, Sequences, FiniteSets, TLC

VARIABLES
    tIn,                    \* typeToElm: the GraphQLType argument
    tOut,                   \* typeToElm: the ElmType returned
    tPc,                    \* typeToElm: "input" before the call, "done" after
    stack,                  \* the calls of a recursive function that have not returned
    call,                   \* the function called and the maps its calls share
    doc,                    \* translateQuery: the Document being translated
    pc,                     \* "idle", "walk" (in the loop over definitions), "done", "failed"
    next,                   \* index in doc of the definition the loop is at
    tinfo,                  \* the TypeInfo walkQueryDocument is called with
    decls,                  \* walkQueryDocument's decls
    expose,                 \* translateQuery's expose
    fragmentDefinitionMap,  \* translateQuery's fragmentDefinitionMap
    seenFragments,          \* walkQueryDocument's seenFragments, keys in insertion order
    seenEnums,              \* walkQueryDocument's seenEnums, keys in insertion order
    seenUnions,             \* walkQueryDocument's seenUnions, keys in insertion order
    error,                  \* message of the Error that ended the translation, or ""
    returned,               \* what translateQuery returned: <<>> or <<[decls, expose]>>
    errorSpec,              \* the --error-spec option of the run
    runs,                   \* translateQuery calls made by processFiles so far
    refDoc,                 \* <<>> or <<a document translated earlier>>
    refReturned             \* what translateQuery returned for refDoc

typeVars == <<tIn, tOut, tPc, stack, call>>
runVars == <<doc, pc, next, tinfo, decls, expose, fragmentDefinitionMap, seenFragments,
             seenEnums, seenUnions, error, returned, errorSpec, runs, refDoc, refReturned>>
vars == <<typeVars, runVars>>

----------------------------------------------------------------------------
(* Bounds *)

MaxWrap == 2                \* List/NonNull wrappers around a named type
MaxDepth == 12              \* calls the stack of the runtime has room for

\* no function called
NoCall == [fn |-> "", seen |-> <<>>, seenTypes |-> {}, entered |-> <<>>]

----------------------------------------------------------------------------
(* GraphQL schema types: [k, name, of]; of is <<>> or <<wrapped type>> *)

GraphQLScalarType(n) == [k |-> "Scalar", name |-> n, of |-> <<>>]
GraphQLEnumType(n) == [k |-> "Enum", name |-> n, of |-> <<>>]
GraphQLObjectType(n) == [k |-> "Object", name |-> n, of |-> <<>>]
GraphQLInputObjectType(n) == [k |-> "Input", name |-> n, of |-> <<>>]
GraphQLUnionType(n) == [k |-> "Union", name |-> n, of |-> <<>>]
GraphQLList(t) == [k |-> "List", name |-> "", of |-> <<t>>]
GraphQLNonNull(t) == [k |-> "NonNull", name |-> "", of |-> <<t>>]
\* info.getType() of a node the schema gives no type
NoType == [k |-> "None", name |-> "", of |-> <<>>]

Int_ == GraphQLScalarType("Int")
Float_ == GraphQLScalarType("Float")
Boolean_ == GraphQLScalarType("Boolean")
ID_ == GraphQLScalarType("ID")
String_ == GraphQLScalarType("String")
DateTime_ == GraphQLScalarType("DateTime")
URL_ == GraphQLScalarType("URL")
Episode_ == GraphQLEnumType("Episode")
Color_ == GraphQLEnumType("Color")
Unit_ == GraphQLEnumType("Unit")
Query_ == GraphQLObjectType("Query")
Character_ == GraphQLObjectType("Character")
Human_ == GraphQLObjectType("Human")
Droid_ == GraphQLObjectType("Droid")
SearchResult_ == GraphQLUnionType("SearchResult")
Item_ == GraphQLUnionType("Item")
ReviewInput_ == GraphQLInputObjectType("ReviewInput")
\* types with a field of their own type, and two with a field of each other's
TreeInput_ == GraphQLInputObjectType("TreeInput")
Node_ == GraphQLObjectType("Node")
Edge_ == GraphQLObjectType("Edge")

FieldDef(n, t) == [name |-> n, type |-> t]

\* type.getFields() of the schema the documents are validated against,
\* in declaration order
getFields(typeName) ==
    CASE typeName = "Query" ->
           << FieldDef("hero", Character_),
              FieldDef("search", SearchResult_),
              FieldDef("results", GraphQLNonNull(GraphQLList(GraphQLNonNull(SearchResult_)))),
              FieldDef("item", GraphQLList(Item_)),
              FieldDef("episode", Episode_),
              FieldDef("color", GraphQLNonNull(Color_)),
              FieldDef("scores", GraphQLList(Int_)),
              FieldDef("ids", GraphQLNonNull(GraphQLList(GraphQLNonNull(ID_)))),
              FieldDef("type", String_) >>
      [] typeName = "Character" ->
           << FieldDef("id", GraphQLNonNull(ID_)),
              FieldDef("name", String_),
              FieldDef("friends", GraphQLList(GraphQLNonNull(Character_))),
              FieldDef("appearsIn", GraphQLList(Episode_)) >>
      [] typeName = "Human" ->
           << FieldDef("name", String_),
              FieldDef("height", Float_),
              FieldDef("favorite", Color_) >>
      [] typeName = "Droid" ->
           << FieldDef("name", String_),
              FieldDef("primaryFunction", GraphQLNonNull(String_)) >>
      [] typeName = "ReviewInput" ->
           << FieldDef("stars", GraphQLNonNull(Int_)),
              FieldDef("type", String_),
              FieldDef("color", Color_) >>
      [] typeName = "TreeInput" ->
           << FieldDef("value", Int_),
              FieldDef("children", GraphQLList(GraphQLNonNull(TreeInput_))) >>
      [] typeName = "Node" ->
           << FieldDef("edges", GraphQLList(GraphQLNonNull(Edge_))),
              FieldDef("color", Color_) >>
      [] typeName = "Edge" ->
           << FieldDef("node", GraphQLNonNull(Node_)),
              FieldDef("unit", Unit_),
              FieldDef("next", Edge_) >>
      [] OTHER -> << >>

\* union.getTypes()
getTypes(unionName) ==
    CASE unionName = "SearchResult" -> << Human_, Droid_ >>
      [] unionName = "Item" -> << Droid_, Human_ >>
      [] OTHER -> << >>

\* enumType.getValues(), the wire names
getValues(enumName) ==
    CASE enumName = "Episode" -> << "NEWHOPE", "EMPIRE", "JEDI" >>
      [] enumName = "Color" -> << "RED", "GREEN" >>
      [] enumName = "Unit" -> << "kg", "KG", "LB" >>
      [] OTHER -> << >>

----------------------------------------------------------------------------
(* Strings.  name[0].toUpperCase() + name.substr(1) and its lower-case     *)
(* twin, on the names the schema and the documents use.                    *)

UpperFirst(s) ==
    CASE s = "heroQuery" -> "HeroQuery"
      [] s = "nameFrag" -> "NameFrag"
      [] s = "humanFrag" -> "HumanFrag"
      [] s = "heroFrag" -> "HeroFrag"
      [] s = "looseFrag" -> "LooseFrag"
      [] s = "missing" -> "Missing"
      [] OTHER -> s

LowerFirst(s) ==
    CASE s = "HeroQuery" -> "heroQuery"
      [] s = "Scores" -> "scores"
      [] s = "Search" -> "search"
      [] s = "Enums" -> "enums"
      [] s = "Dup" -> "dup"
      [] s = "Items" -> "items"
      [] s = "Blind" -> "blind"
      [] s = "Nested" -> "nested"
      [] s = "ByFrag" -> "byFrag"
      [] s = "NameFrag" -> "nameFrag"
      [] s = "HumanFrag" -> "humanFrag"
      [] s = "Deep" -> "deep"
      [] s = "HeroFrag" -> "heroFrag"
      [] s = "Loose" -> "loose"
      [] s = "Inline" -> "inline"
      [] s = "Clash" -> "clash"
      [] s = "LooseFrag" -> "looseFrag"
      [] s = "Missing" -> "missing"
      [] OTHER -> s

toLowerCase(s) ==
    CASE s = "Episode" -> "episode"
      [] s = "Color" -> "color"
      [] s = "Unit" -> "unit"
      [] OTHER -> s

----------------------------------------------------------------------------
(* Elm types (elm-ast): [k, name, args, fields, ext]                       *)

ElmTypeName(n) == [k |-> "Name", name |-> n, args |-> <<>>, fields |-> <<>>, ext |-> ""]
ElmTypeApp(n, as) == [k |-> "App", name |-> n, args |-> as, fields |-> <<>>, ext |-> ""]
ElmTypeRecord(fs, typeParam) ==
    [k |-> "Record", name |-> "", args |-> <<>>, fields |-> fs, ext |-> typeParam]
ElmFieldDecl(n, t) == [name |-> n, type |-> t]
\* the value of a call that threw: new Error('Unexpected: ...')
ElmThrow(msg) == [k |-> "Throw", name |-> msg, args |-> <<>>, fields |-> <<>>, ext |-> ""]

\* Convert the provided GraphQL safe name to an Elm safe name
elmSafeName(graphQlName) ==
    CASE graphQlName = "__typename" -> "typename_"
      [] graphQlName = "type" -> "type_"
      [] graphQlName = "Task" -> "Task_"
      [] graphQlName = "List" -> "List_"
      [] graphQlName = "Http" -> "Http_"
      [] graphQlName = "GraphQL" -> "GraphQL_"
      [] OTHER -> graphQlName

\* the switch on type.name were ID an Int
scalarToElmIdAsInt(n) ==
    CASE n = "Int" -> "Int"
      [] n = "Float" -> "Float"
      [] n = "Boolean" -> "Bool"
      [] n = "ID" -> "Int"
      [] n = "DateTime" -> "String"
      [] n = "String" -> "String"
      [] OTHER -> "String"

\* the switch on type.name of a scalar
scalarToElm(n) ==
    CASE n = "Int" -> "Int"
      [] n = "Float" -> "Float"
      [] n = "Boolean" -> "Bool"
      [] n = "ID" -> "String"
      [] n = "DateTime" -> "String"
      [] n = "String" -> "String"
      [] OTHER -> "String"

\* an exception raised while an argument is built leaves the constructor uncalled
FirstThrow(ts) ==
    IF \E i \in 1..Len(ts) : ts[i].k = "Throw"
    THEN <<ts[CHOOSE i \in 1..Len(ts) :
                 /\ ts[i].k = "Throw"
                 /\ \A j \in 1..(i - 1) : ts[j].k # "Throw"]>>
    ELSE <<>>

RECURSIVE typeToElm(_, _)
typeToElm(type, isNonNull) ==
    LET fieldMap == getFields(type.name)
        fieldTypes == [i \in 1..Len(fieldMap) |-> typeToElm(fieldMap[i].type, FALSE)]
        elmType ==
            CASE type.k = "NonNull" -> typeToElm(type.of[1], TRUE)
              [] type.k = "Scalar" -> ElmTypeName(scalarToElm(type.name))
              [] type.k = "Enum" -> ElmTypeName(UpperFirst(type.name))
              [] type.k = "List" ->
                   LET elem == typeToElm(type.of[1], TRUE)
                   IN IF elem.k = "Throw" THEN elem ELSE ElmTypeApp("List", <<elem>>)
              [] type.k \in {"Object", "Interface", "Input"} ->
                   IF FirstThrow(fieldTypes) # <<>>
                   THEN FirstThrow(fieldTypes)[1]
                   ELSE ElmTypeRecord(
                            [i \in 1..Len(fieldMap) |->
                               ElmFieldDecl(elmSafeName(fieldMap[i].name), fieldTypes[i])],
                            "")
              [] OTHER -> ElmThrow("Unexpected: " \o type.k)
    IN IF elmType.k = "Throw"
       THEN elmType
       ELSE IF ~isNonNull /\ type.k # "List" /\ type.k # "NonNull"
            THEN ElmTypeApp("Maybe", <<elmType>>)
            ELSE elmType

----------------------------------------------------------------------------
(* GraphQL AST (graphql/language).  Every node is [kind, name, alias,      *)
(* typeCondition, operation, vars, sels]; sels is the node's               *)
(* selectionSet.selections, <<>> when the node has no selection set.       *)

Node(kind, name, alias, typeCondition, operation, variableDefinitions, sels) ==
    [kind |-> kind, name |-> name, alias |-> alias, typeCondition |-> typeCondition,
     operation |-> operation, vars |-> variableDefinitions, sels |-> sels]

Field(name, sels) == Node("Field", name, "", "", "", <<>>, sels)
AliasedField(alias, name, sels) == Node("Field", name, alias, "", "", <<>>, sels)
FragmentSpread(name) == Node("FragmentSpread", name, "", "", "", <<>>, <<>>)
InlineFragment(typeCondition, sels) ==
    Node("InlineFragment", "", "", typeCondition, "", <<>>, sels)
OperationDefinition(operation, name, variableDefinitions, sels) ==
    Node("OperationDefinition", name, "", "", operation, variableDefinitions, sels)
FragmentDefinition(name, typeCondition, sels) ==
    Node("FragmentDefinition", name, "", typeCondition, "", <<>>, sels)
\* the SelectionSet node of a field, fragment or operation
SelectionSet == Node("SelectionSet", "", "", "", "", <<>>, <<>>)
VariableDefinition(name, type, hasDefault) ==
    [name |-> name, type |-> type, hasDefault |-> hasDefault]

----------------------------------------------------------------------------
(* TypeInfo (graphql/utilities): the type stack and the parent type stack. *)
(* The field definition stack moves with the type stack on Field nodes and *)
(* the input type stack is never read by the translation.                  *)

NewTypeInfo == [typeStack |-> <<>>, parentTypeStack |-> <<>>]

Last(s) == s[Len(s)]
Pop(s) == SubSeq(s, 1, Len(s) - 1)

getType(info) ==
    IF info.typeStack = <<>> THEN NoType ELSE Last(info.typeStack)

getParentType(info) ==
    IF info.parentTypeStack = <<>> THEN NoType ELSE Last(info.parentTypeStack)

RECURSIVE getNamedType(_)
getNamedType(type) ==
    IF type.k \in {"List", "NonNull"} THEN getNamedType(type.of[1]) ELSE type

isCompositeType(type) == type.k \in {"Object", "Interface", "Union"}

\* schema.getType(name)
schemaGetType(n) ==
    CASE n \in {"Query", "Character", "Human", "Droid", "Node", "Edge"} ->
           GraphQLObjectType(n)
      [] n \in {"SearchResult", "Item"} -> GraphQLUnionType(n)
      [] n \in {"Episode", "Color", "Unit"} -> GraphQLEnumType(n)
      [] n \in {"ReviewInput", "TreeInput"} -> GraphQLInputObjectType(n)
      [] n \in {"Int", "Float", "Boolean", "ID", "String", "DateTime", "URL"} ->
           GraphQLScalarType(n)
      [] OTHER -> NoType

\* AST type nodes: [k, name, of] like the schema types
NamedType(n) == [k |-> "NamedType", name |-> n, of |-> <<>>]
ListType(t) == [k |-> "ListType", name |-> "", of |-> <<t>>]
NonNullType(t) == [k |-> "NonNullType", name |-> "", of |-> <<t>>]

\* typeFromAST(schema, typeNode)
RECURSIVE typeFromAST(_)
typeFromAST(typeNode) ==
    CASE typeNode.k = "ListType" ->
           LET innerType == typeFromAST(typeNode.of[1])
           IN IF innerType = NoType THEN NoType ELSE GraphQLList(innerType)
      [] typeNode.k = "NonNullType" ->
           LET innerType == typeFromAST(typeNode.of[1])
           IN IF innerType = NoType THEN NoType ELSE GraphQLNonNull(innerType)
      [] OTHER -> schemaGetType(typeNode.name)

\* TypeInfo's getFieldDef: the type of field `name` of parentType
getFieldDefType(parentType, name) ==
    LET fs == getFields(parentType.name)
    IN IF name = "__typename" /\ isCompositeType(parentType)
       THEN GraphQLNonNull(String_)
       ELSE IF parentType.k \in {"Object", "Interface"}
                 /\ \E i \in 1..Len(fs) : fs[i].name = name
            THEN fs[CHOOSE i \in 1..Len(fs) : fs[i].name = name].type
            ELSE NoType

\* schema.getQueryType() / getMutationType()
rootType(operation) ==
    IF operation = "query" THEN Query_ ELSE NoType

enter(info, node) ==
    CASE node.kind = "SelectionSet" ->
           LET namedType == getNamedType(getType(info))
           IN [info EXCEPT !.parentTypeStack =
                  Append(@, IF isCompositeType(namedType) THEN namedType ELSE NoType)]
      [] node.kind = "Field" ->
           LET parentType == getParentType(info)
           IN [info EXCEPT !.typeStack =
                  Append(@, IF parentType = NoType
                            THEN NoType
                            ELSE getFieldDefType(parentType, node.name))]
      [] node.kind = "OperationDefinition" ->
           [info EXCEPT !.typeStack = Append(@, rootType(node.operation))]
      [] node.kind \in {"InlineFragment", "FragmentDefinition"} ->
           [info EXCEPT !.typeStack =
               Append(@, IF node.typeCondition # ""
                         THEN typeFromAST(NamedType(node.typeCondition))
                         ELSE getType(info))]
      [] OTHER -> info

leave(info, node) ==
    CASE node.kind = "SelectionSet" ->
           [info EXCEPT !.parentTypeStack = Pop(@)]
      [] node.kind \in {"Field", "OperationDefinition", "InlineFragment",
                        "FragmentDefinition"} ->
           [info EXCEPT !.typeStack = Pop(@)]
      [] OTHER -> info

----------------------------------------------------------------------------
(* query-to-elm.ts: the walk of a definition that builds its Elm types.    *)
(* A walk function returns a record: err is the message of the Error it    *)
(* threw ("" when it returned), info the TypeInfo as it left it.           *)

ElmNull == [k |-> "Null", name |-> "", args |-> <<>>, fields |-> <<>>, ext |-> ""]

\* obj[key] = val on an object whose keys are kept in insertion order
MapPut(m, key, val) ==
    IF \E i \in 1..Len(m) : m[i].key = key
    THEN [i \in 1..Len(m) |-> IF m[i].key = key THEN [key |-> key, val |-> val] ELSE m[i]]
    ELSE Append(m, [key |-> key, val |-> val])

\* for (let spreadName of spreads) type = new ElmTypeApp(SpreadName_, [type])
RECURSIVE applySpreads(_, _)
applySpreads(type, spreads) ==
    IF spreads = <<>>
    THEN type
    ELSE applySpreads(ElmTypeApp(UpperFirst(Head(spreads)) \o "_", <<type>>), Tail(spreads))

\* the NonNull, List, NonNull unwrapping of walkSelectionSet, walkUnionSelectionSet
\* and collectUnions
unwrap3(type) ==
    LET t1 == IF type.k = "NonNull" THEN type.of[1] ELSE type
        t2 == IF t1.k = "List" THEN t1.of[1] ELSE t1
    IN IF t2.k = "NonNull" THEN t2.of[1] ELSE t2

RECURSIVE walkSelectionSet(_, _)
RECURSIVE walkSelections(_, _, _)
RECURSIVE walkUnionSelectionSet(_, _)
RECURSIVE walkUnionSelections(_, _, _)
RECURSIVE walkField(_, _)

walkField(field, info0) ==
    LET name == IF field.alias # "" THEN elmSafeName(field.alias) ELSE elmSafeName(field.name)
        \* the field has a selection set: r is what walkSelectionSet returned
        Nested(info_type, r) ==
            LET isMaybe == info_type.k # "NonNull"
                t1 == IF info_type.k = "NonNull" THEN info_type.of[1] ELSE info_type
                isList == t1.k = "List"
                type0 == IF r.union # ElmNull THEN r.union ELSE ElmTypeRecord(r.fields, "")
                type1 == applySpreads(type0, r.spreads)
                type2 == IF isList THEN ElmTypeApp("List", <<type1>>) ELSE type1
                type3 == IF isMaybe THEN ElmTypeApp("Maybe", <<type2>>) ELSE type2
            IN IF r.err # ""
               THEN [err |-> r.err, info |-> r.info, decl |-> ElmFieldDecl(name, ElmNull)]
               ELSE [err |-> "", info |-> leave(r.info, field),
                     decl |-> ElmFieldDecl(name, type3)]
        \* the field has none: type is typeToElm(info.getType())
        Leaf(info1, info_type, type) ==
            CASE info_type = NoType ->
                   [err |-> "Unknown GraphQL field: " \o field.name, info |-> info1,
                    decl |-> ElmFieldDecl(name, ElmNull)]
              [] info_type # NoType /\ type.k = "Throw" ->
                   [err |-> type.name, info |-> info1, decl |-> ElmFieldDecl(name, ElmNull)]
              [] OTHER ->
                   [err |-> "", info |-> leave(info1, field), decl |-> ElmFieldDecl(name, type)]
        Entered(info1) ==
            IF field.sels # <<>>
            THEN Nested(getType(info1), walkSelectionSet(field.sels, info1))
            ELSE Leaf(info1, getType(info1), typeToElm(getType(info1), FALSE))
    IN Entered(enter(info0, field))

\* the loop were an inline fragment passed over
walkSelectionsSkipping(sels, i, acc) ==
    IF i > Len(sels) \/ acc.err # ""
    THEN acc
    ELSE LET sel == sels[i]
             Pushed(r) ==
                 IF r.err # ""
                 THEN [acc EXCEPT !.err = r.err, !.info = r.info]
                 ELSE [acc EXCEPT !.info = r.info, !.fields = Append(@, r.decl)]
             step ==
                 CASE sel.kind = "Field" -> Pushed(walkField(sel, acc.info))
                   [] sel.kind = "FragmentSpread" ->
                        [acc EXCEPT !.spreads = Append(@, sel.name)]
                   [] OTHER -> acc
         IN walkSelections(sels, i + 1, step)

\* the loop over selSet.selections of walkSelectionSet, from selection i on
walkSelections(sels, i, acc) ==
    IF i > Len(sels) \/ acc.err # ""
    THEN acc
    ELSE LET sel == sels[i]
             Pushed(r) ==
                 IF r.err # ""
                 THEN [acc EXCEPT !.err = r.err, !.info = r.info]
                 ELSE [acc EXCEPT !.info = r.info, !.fields = Append(@, r.decl)]
             step ==
                 CASE sel.kind = "Field" -> Pushed(walkField(sel, acc.info))
                   [] sel.kind = "FragmentSpread" ->
                        [acc EXCEPT !.spreads = Append(@, sel.name)]
                   [] sel.kind = "InlineFragment" ->
                        [acc EXCEPT !.err = "not implemented: InlineFragment on "
                                                \o sel.typeCondition]
                   [] OTHER -> acc
         IN walkSelections(sels, i + 1, step)

walkSelectionSet(selSet, info0) ==
    LET OfUnion(u) ==
            IF u.err # ""
            THEN [err |-> u.err, info |-> u.info, fields |-> <<>>, spreads |-> <<>>,
                  union |-> ElmNull]
            ELSE [err |-> "", info |-> leave(u.info, SelectionSet), fields |-> <<>>,
                  spreads |-> <<>>, union |-> u.type]
        OfFields(r) ==
            IF r.err # ""
            THEN [err |-> r.err, info |-> r.info, fields |-> <<>>, spreads |-> <<>>,
                  union |-> ElmNull]
            ELSE [err |-> "", info |-> leave(r.info, SelectionSet), fields |-> r.fields,
                  spreads |-> r.spreads, union |-> ElmNull]
        Entered(info1) ==
            IF unwrap3(getType(info1)).k = "Union"
            THEN OfUnion(walkUnionSelectionSet(selSet, info1))
            ELSE OfFields(walkSelections(selSet, 1,
                     [err |-> "", info |-> info1, fields |-> <<>>, spreads |-> <<>>]))
    IN Entered(enter(info0, SelectionSet))

\* the loop over selSet.selections of walkUnionSelectionSet, from selection i on
walkUnionSelections(sels, i, acc) ==
    IF i > Len(sels) \/ acc.err # ""
    THEN acc
    ELSE LET sel == sels[i]
             isSpread == sel.kind = "FragmentSpread"
             \* r is what walkSelectionSet returned for the fragment's selection set
             Mapped(acc1, frag, key, r) ==
                 IF r.err # ""
                 THEN [acc1 EXCEPT !.err = r.err, !.info = r.info]
                 ELSE [acc1 EXCEPT
                          !.info = leave(r.info, frag),
                          !.typeMap = MapPut(@, key,
                              applySpreads(ElmTypeRecord(r.fields, ""), r.spreads))]
             Fragment(acc1, frag, key) ==
                 Mapped(acc1, frag, key, walkSelectionSet(frag.sels, enter(acc1.info, frag)))
             Selection(acc1) ==
                 CASE sel.kind = "InlineFragment"
                         \/ (isSpread /\ sel.name \in DOMAIN fragmentDefinitionMap) ->
                        Fragment(acc1,
                                 IF isSpread THEN fragmentDefinitionMap[sel.name] ELSE sel,
                                 IF isSpread THEN sel.name ELSE sel.typeCondition)
                   [] isSpread /\ sel.name \notin DOMAIN fragmentDefinitionMap ->
                        [acc1 EXCEPT !.err = "TypeError: undefined fragment " \o sel.name]
                   [] OTHER -> acc1
         IN walkUnionSelections(sels, i + 1,
                Selection(IF sel.kind = "Field" /\ sel.name = "__typename"
                          THEN [acc EXCEPT !.hasTypename = TRUE]
                          ELSE acc))

\* walkUnionSelectionSet were hasTypename never looked at
walkUnionSelectionSetUnchecked(selSet, info0) ==
    LET union == unwrap3(getType(info0))
        Walked(r) ==
            IF r.err # ""
            THEN [err |-> r.err, info |-> r.info, type |-> ElmNull]
            ELSE [err |-> "", info |-> r.info,
                  type |-> ElmTypeApp(union.name,
                               [i \in 1..Len(r.typeMap) |-> r.typeMap[i].val])]
    IN Walked(walkUnionSelections(selSet, 1,
                  [err |-> "", info |-> info0, hasTypename |-> FALSE, typeMap |-> <<>>]))

walkUnionSelectionSet(selSet, info0) ==
    LET union == unwrap3(getType(info0))
        Walked(r) ==
            CASE r.err # "" -> [err |-> r.err, info |-> r.info, type |-> ElmNull]
              [] r.err = "" /\ ~r.hasTypename ->
                   [err |-> "must query field '__typename' on union types (missing for '"
                               \o union.name \o "')",
                    info |-> r.info, type |-> ElmNull]
              [] OTHER ->
                   [err |-> "", info |-> r.info,
                    type |-> ElmTypeApp(union.name,
                                 [i \in 1..Len(r.typeMap) |-> r.typeMap[i].val])]
    IN Walked(walkUnionSelections(selSet, 1,
                  [err |-> "", info |-> info0, hasTypename |-> FALSE, typeMap |-> <<>>]))

----------------------------------------------------------------------------
(* query-to-decoder.ts: the walk of an operation that builds its decoder.  *)
(* The decoder text is kept as the tree it is concatenated from:           *)
(* [k, name, shape, subs].  A chain a |> apply b |> apply c is the         *)
(* sequence <<a, b, c>>.                                                   *)

ElmExpr(k, name, shape, subs) == [k |-> k, name |-> name, shape |-> shape, subs |-> subs]
ExprNull == ElmExpr("null", "", <<>>, <<>>)
\* int, string, episodeDecoder
DLeaf(name) == ElmExpr("leaf", name, <<>>, <<>>)
\* (field "name" inner)
DField(name, inner) == ElmExpr("field", name, <<>>, <<inner>>)
\* (maybe inner), (list inner)
DMaybe(inner) == ElmExpr("maybe", "", <<>>, <<inner>>)
DList(inner) == ElmExpr("list", "", <<>>, <<inner>>)
\* (map (\f1 .. fn -> ctor { f1 = f1, .. }) chain); with shape <<>>: (map ctor chain)
DMap(ctor, shape, chain) == ElmExpr("map", ctor, shape, chain)
\* ((field "__typename" string) |> andThen (\typename -> case typename of branches))
DAndThen(branches) == ElmExpr("andThen", "__typename", <<>>, branches)
\* "key" -> inner
DBranch(key, inner) == ElmExpr("branch", key, <<>>, <<inner>>)
\* _ -> fail "msg"
DFail(msg) == ElmExpr("fail", msg, <<>>, <<>>)

Range(s) == { s[i] : i \in 1..Len(s) }
\* if (fields.indexOf(name) == -1) fields.push(name)
PushNew(s, x) == IF x \in Range(s) THEN s ELSE Append(s, x)

\* PushNew of every element of xs in turn: s, which holds nothing twice, then
\* what of xs is new, where it comes first
PushAllNew(s, xs) ==
    LET all == s \o xs
        firsts == { i \in 1..Len(all) : \A j \in 1..(i - 1) : all[j] # all[i] }
    IN [k \in 1..Cardinality(firsts) |->
           all[CHOOSE i \in firsts : Cardinality({ j \in firsts : j < i }) = k - 1]]

\* Create an Elm decoder for the given leaf (non-nested) type
leafTypeToDecoder(type0) ==
    LET type == IF type0.k = "NonNull" THEN type0.of[1] ELSE type0
    IN CASE type.k = "Scalar" ->
              [err |-> "",
               decoder |-> CASE type.name = "Int" -> "int"
                             [] type.name = "Float" -> "float"
                             [] type.name = "Boolean" -> "bool"
                             [] type.name = "ID" -> "string"
                             [] type.name = "DateTime" -> "string"
                             [] type.name = "String" -> "string"
                             [] OTHER -> "string"]
         [] type.k = "Enum" ->
              [err |-> "", decoder |-> toLowerCase(type.name) \o "Decoder"]
         [] OTHER -> [err |-> "not a leaf type: " \o type.name, decoder |-> ""]

RECURSIVE getSelectionSetFields(_, _)
RECURSIVE getSelectionSetFieldsLoop(_, _, _)

\* the loop over selSet.selections of getSelectionSetFields, from selection i on
getSelectionSetFieldsLoop(sels, i, acc) ==
    IF i > Len(sels) \/ acc.err # ""
    THEN acc
    ELSE LET sel == sels[i]
             name == IF sel.alias # "" THEN elmSafeName(sel.alias) ELSE elmSafeName(sel.name)
             \* g is what getSelectionSetFields returned for the spread fragment
             Expanded(g) ==
                 IF g.err # ""
                 THEN [acc EXCEPT !.err = g.err, !.info = g.info]
                 ELSE [acc EXCEPT !.info = g.info, !.fields = PushAllNew(@, g.fields)]
             step ==
                 CASE sel.kind = "Field" -> [acc EXCEPT !.fields = PushNew(@, name)]
                   [] sel.kind = "FragmentSpread"
                         /\ sel.name \notin DOMAIN fragmentDefinitionMap ->
                        [acc EXCEPT !.err = "TypeError: undefined fragment " \o sel.name]
                   [] sel.kind = "FragmentSpread"
                         /\ sel.name \in DOMAIN fragmentDefinitionMap ->
                        Expanded(getSelectionSetFields(
                                     fragmentDefinitionMap[sel.name].sels, acc.info))
                   [] sel.kind = "InlineFragment" -> [acc EXCEPT !.err = "Should not happen"]
                   [] OTHER -> acc
         IN getSelectionSetFieldsLoop(sels, i + 1, step)

\* Get the list of fields for the provided selection set
getSelectionSetFields(selSet, info0) ==
    LET Listed(r) == IF r.err # "" THEN r ELSE [r EXCEPT !.info = leave(@, SelectionSet)]
    IN Listed(getSelectionSetFieldsLoop(selSet, 1,
                  [err |-> "", info |-> enter(info0, SelectionSet), fields |-> <<>>]))

RECURSIVE decoderWalkSelectionSet(_, _, _)
RECURSIVE decoderWalkSelections(_, _, _)
RECURSIVE decoderWalkField(_, _)
RECURSIVE decoderWalkUnion(_, _, _)
RECURSIVE decoderWalkUnionSelections(_, _, _, _)

\* the loop over selSet.selections of the decoder's walkSelectionSet
decoderWalkSelections(sels, i, acc) ==
    IF i > Len(sels) \/ acc.err # ""
    THEN acc
    ELSE LET sel == sels[i]
             name == IF sel.alias = "" THEN sel.name ELSE sel.alias
             \* r is what walkField returned
             Pushed(r) ==
                 IF r.err # ""
                 THEN [acc EXCEPT !.err = r.err, !.info = r.info]
                 ELSE [acc EXCEPT !.info = r.info,
                                  !.fields = Append(@, r.expr),
                                  !.seenFields = Append(@, name)]
             \* r is what walkSelectionSet returned for the spread fragment
             Spread(r) ==
                 IF r.err # ""
                 THEN [acc EXCEPT !.err = r.err, !.info = r.info]
                 ELSE [acc EXCEPT !.info = r.info,
                                  !.fields = @ \o r.exprs,
                                  !.seenFields = r.seenFields]
             step ==
                 CASE sel.kind = "Field" /\ name \in Range(acc.seenFields) -> acc
                   [] sel.kind = "Field" /\ name \notin Range(acc.seenFields) ->
                        Pushed(decoderWalkField(sel, acc.info))
                   [] sel.kind = "FragmentSpread"
                         /\ sel.name \notin DOMAIN fragmentDefinitionMap ->
                        [acc EXCEPT !.err = "TypeError: undefined fragment " \o sel.name]
                   [] sel.kind = "FragmentSpread"
                         /\ sel.name \in DOMAIN fragmentDefinitionMap ->
                        Spread(decoderWalkSelectionSet(fragmentDefinitionMap[sel.name].sels,
                                                       acc.info, acc.seenFields))
                   [] sel.kind = "InlineFragment" -> [acc EXCEPT !.err = "Should not happen"]
                   [] OTHER -> acc
         IN decoderWalkSelections(sels, i + 1, step)

\* Convert the selection set into an Elm expression: the chain of its fields'
\* decoders, those of a spread fragment joined into it
decoderWalkSelectionSet(selSet, info0, seenFields) ==
    LET Walked(r) ==
            IF r.err # ""
            THEN [err |-> r.err, info |-> r.info, exprs |-> <<>>,
                  seenFields |-> r.seenFields]
            ELSE [err |-> "", info |-> leave(r.info, SelectionSet), exprs |-> r.fields,
                  seenFields |-> r.seenFields]
    IN Walked(decoderWalkSelections(selSet, 1,
                  [err |-> "", info |-> enter(info0, SelectionSet), fields |-> <<>>,
                   seenFields |-> seenFields]))

\* Convert a nested query field into an elm expression
decoderWalkField(field, info0) ==
    LET originalName == IF field.alias # "" THEN field.alias ELSE field.name
        \* fields is what walkSelectionSet returned, fieldNames what
        \* getSelectionSetFields returned after info.leave(field)
        Nested(isMaybe, prefix, fields, fieldNames) ==
            LET right0 == DMap("", fieldNames.fields, fields.exprs)
                right1 == IF prefix THEN DList(right0) ELSE right0
                right2 == IF isMaybe THEN DMaybe(right1) ELSE right1
            IN CASE fields.err # "" ->
                      [err |-> fields.err, info |-> fields.info, expr |-> ExprNull]
                 [] fields.err = "" /\ fieldNames.err # "" ->
                      [err |-> fieldNames.err, info |-> fieldNames.info, expr |-> ExprNull]
                 [] OTHER ->
                      [err |-> "", info |-> fieldNames.info,
                       expr |-> DField(originalName, right2)]
        Selected(isMaybe, prefix, fields) ==
            Nested(isMaybe, prefix, fields,
                   getSelectionSetFields(field.sels, leave(fields.info, field)))
        Leaf(info1, isMaybe, prefix, d) ==
            LET right0 == DField(originalName,
                                 IF prefix THEN DList(DLeaf(d.decoder)) ELSE DLeaf(d.decoder))
                right1 == IF isMaybe THEN DMaybe(right0) ELSE right0
            IN IF d.err # ""
               THEN [err |-> d.err, info |-> info1, expr |-> ExprNull]
               ELSE [err |-> "", info |-> leave(info1, field), expr |-> right1]
        Entered(info1) ==
            LET typeInfo0 == getType(info1)
                isMaybe == typeInfo0.k # "NonNull"
                typeInfo1 == IF typeInfo0.k = "NonNull" THEN typeInfo0.of[1] ELSE typeInfo0
                prefix == typeInfo1.k = "List"
                typeInfo2 == IF prefix THEN typeInfo1.of[1] ELSE typeInfo1
                typeInfo3 == IF typeInfo2.k = "NonNull" THEN typeInfo2.of[1] ELSE typeInfo2
            IN CASE typeInfo3.k = "Union" -> decoderWalkUnion(originalName, field, info1)
                 [] typeInfo3.k # "Union" /\ field.sels # <<>> ->
                      Selected(isMaybe, prefix,
                               decoderWalkSelectionSet(field.sels, info1, <<>>))
                 [] OTHER -> Leaf(info1, isMaybe, prefix, leafTypeToDecoder(typeInfo3))
    IN Entered(enter(info0, field))

\* the loop over field.selectionSet.selections of the decoder's walkUnion
decoderWalkUnionSelections(sels, i, union_name, acc) ==
    IF i > Len(sels) \/ acc.err # ""
    THEN acc
    ELSE LET sel == sels[i]
             isSpread == sel.kind = "FragmentSpread"
             \* fields is what walkSelectionSet returned for the fragment,
             \* fieldNames what getSelectionSetFields returned
             Branch(def, fields, fieldNames) ==
                 CASE fields.err # "" -> [acc EXCEPT !.err = fields.err, !.info = fields.info]
                   [] fields.err = "" /\ fieldNames.err # "" ->
                        [acc EXCEPT !.err = fieldNames.err, !.info = fieldNames.info]
                   [] OTHER ->
                        [acc EXCEPT
                            !.info = IF isSpread THEN leave(fieldNames.info, def)
                                                 ELSE fieldNames.info,
                            !.branches =
                                Append(@, DBranch(def.typeCondition,
                                    DMap(elmSafeName(union_name \o "_" \o def.typeCondition),
                                         fieldNames.fields, fields.exprs)))]
             \* an inline fragment is left before its field names are listed,
             \* a fragment definition after
             Walked(def, fields) ==
                 Branch(def, fields,
                        getSelectionSetFields(def.sels,
                            IF isSpread THEN fields.info ELSE leave(fields.info, def)))
             Fragment(def) ==
                 Walked(def, decoderWalkSelectionSet(def.sels, enter(acc.info, def), <<>>))
             step ==
                 CASE sel.kind = "InlineFragment"
                         \/ (isSpread /\ sel.name \in DOMAIN fragmentDefinitionMap) ->
                        Fragment(IF isSpread THEN fragmentDefinitionMap[sel.name] ELSE sel)
                   [] isSpread /\ sel.name \notin DOMAIN fragmentDefinitionMap ->
                        [acc EXCEPT !.err = "TypeError: undefined fragment " \o sel.name]
                   [] sel.kind = "Field" /\ sel.name # "__typename" ->
                        [acc EXCEPT !.err = "Unexpected field: " \o sel.name]
                   [] sel.kind = "Field" /\ sel.name = "__typename" -> acc
                   [] OTHER -> [acc EXCEPT !.err = "Unexpected: " \o sel.kind]
         IN decoderWalkUnionSelections(sels, i + 1, union_name, step)

\* walkUnion of the decoder were the branch that fails left out
decoderWalkUnionWithoutFallback(originalName, field, info0) ==
    LET union_type0 == getType(info0)
        isMaybe == union_type0.k # "NonNull"
        union_type1 == IF union_type0.k = "NonNull" THEN union_type0.of[1] ELSE union_type0
        prefix == union_type1.k = "List"
        union_type2 == IF prefix THEN union_type1.of[1] ELSE union_type1
        union_type3 == IF union_type2.k = "NonNull" THEN union_type2.of[1] ELSE union_type2
        union_name == IF union_type3.k = "Union" THEN union_type3.name ELSE ""
        Walked(r) ==
            LET decoder0 == DAndThen(r.branches)
                decoder1 == IF prefix THEN DList(decoder0) ELSE decoder0
                decoder2 == IF isMaybe THEN DMaybe(decoder1) ELSE decoder1
            IN IF r.err # ""
               THEN [err |-> r.err, info |-> r.info, expr |-> ExprNull]
               ELSE [err |-> "", info |-> r.info, expr |-> DField(originalName, decoder2)]
    IN Walked(decoderWalkUnionSelections(field.sels, 1, union_name,
                  [err |-> "", info |-> info0, branches |-> <<>>]))

\* Generate an Elm Decoder for the provided union.  The field entered by
\* walkField is not left here.
decoderWalkUnion(originalName, field, info0) ==
    LET union_type0 == getType(info0)
        isMaybe == union_type0.k # "NonNull"
        union_type1 == IF union_type0.k = "NonNull" THEN union_type0.of[1] ELSE union_type0
        prefix == union_type1.k = "List"
        union_type2 == IF prefix THEN union_type1.of[1] ELSE union_type1
        union_type3 == IF union_type2.k = "NonNull" THEN union_type2.of[1] ELSE union_type2
        union_name == IF union_type3.k = "Union" THEN union_type3.name ELSE ""
        Walked(r) ==
            LET decoder0 == DAndThen(Append(r.branches, DFail("Unexpected union type")))
                decoder1 == IF prefix THEN DList(decoder0) ELSE decoder0
                decoder2 == IF isMaybe THEN DMaybe(decoder1) ELSE decoder1
            IN IF r.err # ""
               THEN [err |-> r.err, info |-> r.info, expr |-> ExprNull]
               ELSE [err |-> "", info |-> r.info, expr |-> DField(originalName, decoder2)]
    IN Walked(decoderWalkUnionSelections(field.sels, 1, union_name,
                  [err |-> "", info |-> info0, branches |-> <<>>]))

\* Convert the provided GraphQL operation to an Elm Expression
decoderWalkOperationDefinition(def, info0) ==
    LET name == IF def.name # "" THEN def.name ELSE "AnonymousQuery"
        resultType == UpperFirst(name)
        Walked(r, thrown) ==
            CASE r.err # "" -> [err |-> r.err, info |-> r.info, expr |-> ExprNull]
              [] r.err = "" /\ thrown # <<>> ->
                   [err |-> thrown[1].name, info |-> r.info, expr |-> ExprNull]
              [] OTHER ->
                   [err |-> "", info |-> leave(r.info, def),
                    expr |-> DMap(resultType, <<>>, r.exprs)]
    IN Walked(decoderWalkSelectionSet(def.sels, enter(info0, def), <<>>),
              FirstThrow([i \in 1..Len(def.vars) |->
                             typeToElm(typeFromAST(def.vars[i].type), FALSE)]))

\* Generate an Elm JSON decoder for the provided GraphQL query
decoderForQuery(def, info0) == decoderWalkOperationDefinition(def, info0)

----------------------------------------------------------------------------
(* query-to-elm.ts: declarations.  [kind, name, params, type, ctors,       *)
(* typeParams, body]                                                       *)

ElmFunctionDecl(name, parameters, returnType, body) ==
    [kind |-> "Function", name |-> name, params |-> parameters, type |-> returnType,
     ctors |-> <<>>, typeParams |-> <<>>, body |-> body]
ElmTypeDecl(name, constructors) ==
    [kind |-> "Type", name |-> name, params |-> <<>>, type |-> ElmNull,
     ctors |-> constructors, typeParams |-> <<>>, body |-> ExprNull]
ElmTypeAliasDecl(name, type, typeParams) ==
    [kind |-> "Alias", name |-> name, params |-> <<>>, type |-> type,
     ctors |-> <<>>, typeParams |-> typeParams, body |-> ExprNull]
ElmParameterDecl(name, type) == [name |-> name, type |-> type]

alphabet ==
    << "a", "b", "c", "d", "e", "f", "g", "h", "i", "j", "k", "l", "m", "n", "o", "p",
       "q", "r", "s", "t", "u", "v", "w", "x", "y", "z" >>

\* the endpoint URL and HTTP verb the modules are generated for
uri == "https://example.org/graphql"
verb == "GET"

\* v.name[0].toUpperCase() + v.name.substr(1).toLowerCase()
CapitalizeLower(v) ==
    CASE v = "NEWHOPE" -> "Newhope"
      [] v = "EMPIRE" -> "Empire"
      [] v = "JEDI" -> "Jedi"
      [] v = "RED" -> "Red"
      [] v = "GREEN" -> "Green"
      [] v = "kg" -> "Kg"
      [] v = "KG" -> "Kg"
      [] v = "LB" -> "Lb"
      [] OTHER -> v

\* strs.join(sep)
RECURSIVE Join(_, _)
Join(strs, sep) ==
    IF strs = <<>> THEN ""
    ELSE IF Len(strs) = 1 THEN strs[1]
    ELSE strs[1] \o sep \o Join(Tail(strs), sep)

walkEnum(enumName) ==
    LET values == getValues(enumName)
    IN ElmTypeDecl(enumName,
           [i \in 1..Len(values) |-> enumName \o "_" \o CapitalizeLower(values[i])])

decoderForEnum(enumName) ==
    LET values == getValues(enumName)
        decoderTypeName == UpperFirst(enumName)
    IN ElmFunctionDecl(
           toLowerCase(enumName) \o "Decoder",
           <<>>,
           ElmTypeName("Decoder " \o decoderTypeName),
           ElmExpr("andThen", "string", <<>>,
               [i \in 1..Len(values) |->
                   DBranch(values[i],
                       ElmExpr("succeed",
                               decoderTypeName \o "_" \o CapitalizeLower(values[i]),
                               <<>>, <<>>))]
               \o <<DFail("Unknown " \o enumName)>>))

\* the declarations of a union type: one type with a parameter and a
\* constructor per member type
walkUnion(unionName) ==
    LET types == getTypes(unionName)
        params == Join([i \in 1..Len(types) |-> alphabet[i]], " ")
    IN << ElmTypeDecl(unionName \o " " \o params,
              [i \in 1..Len(types) |->
                  elmSafeName(unionName \o "_" \o types[i].name) \o " " \o alphabet[i]]) >>

RECURSIVE encoderForInputType(_, _, _)
encoderForInputType(type0, isNonNull, path) ==
    LET isMaybe == type0.k # "NonNull"
        type == IF type0.k = "NonNull" THEN type0.of[1] ELSE type0
        value == IF isMaybe THEN "o" ELSE path
        fields == getFields(type.name)
        fieldEncoders ==
            [i \in 1..Len(fields) |->
                ElmExpr("entry", fields[i].name, <<>>,
                    <<encoderForInputType(fields[i].type, FALSE,
                                          value \o "." \o fields[i].name)>>)]
        values == getValues(type.name)
        encoder ==
            CASE type.k = "Input" ->
                   IF \E i \in 1..Len(fields) : fieldEncoders[i].subs[1].k = "throw"
                   THEN fieldEncoders[CHOOSE i \in 1..Len(fields) :
                                          fieldEncoders[i].subs[1].k = "throw"].subs[1]
                   ELSE ElmExpr("Json.Encode.object", "", <<>>, fieldEncoders)
              [] type.k = "List" ->
                   LET elem == encoderForInputType(type.of[1], TRUE, "x")
                   IN IF elem.k = "throw"
                      THEN elem
                      ELSE ElmExpr("Json.Encode.list", value, <<"x">>, <<elem>>)
              [] type.k = "Scalar" ->
                   CASE type.name = "Int" -> ElmExpr("Json.Encode.int", value, <<>>, <<>>)
                     [] type.name = "Float" -> ElmExpr("Json.Encode.float", value, <<>>, <<>>)
                     [] type.name = "Boolean" -> ElmExpr("Json.Encode.bool", value, <<>>, <<>>)
                     [] OTHER -> ElmExpr("Json.Encode.string", value, <<>>, <<>>)
              [] type.k = "Enum" ->
                   ElmExpr("enumEncode", value, <<>>,
                       [i \in 1..Len(values) |->
                           ElmExpr("tuple",
                                   type.name \o "_" \o CapitalizeLower(values[i]),
                                   <<values[i]>>, <<>>)])
              [] OTHER -> ElmExpr("throw", "not implemented: " \o type.k, <<>>, <<>>)
    IN IF encoder.k = "throw"
       THEN encoder
       ELSE IF isMaybe
            THEN ElmExpr("maybeEncode", path, <<"o">>, <<encoder>>)
            ELSE encoder

\* visit(node, {enter, leave}) with a TypeInfo entered and left at every node:
\* the nodes in the order they are entered, each with info.getType() before and
\* after info.enter(node).  Arguments and variable definitions are passed
\* over: they move the input type stack only.
VisitEntry(node, before, after) ==
    [kind |-> node.kind, name |-> node.name, before |-> before, after |-> after]

RECURSIVE visitNode(_, _)
RECURSIVE visitNodes(_, _, _)

\* the nodes of a list, one after the other: [seq, info]
visitNodes(nodes, i, info0) ==
    IF i > Len(nodes)
    THEN [seq |-> <<>>, info |-> info0]
    ELSE LET Both(r, rest) == [seq |-> r.seq \o rest.seq, info |-> rest.info]
             First(r) == Both(r, visitNodes(nodes, i + 1, r.info))
         IN First(visitNode(nodes[i], info0))

visitNode(node, info0) ==
    LET Child(kind, name, here) ==
            <<[kind |-> kind, name |-> name, before |-> here, after |-> here]>>
        \* inner is what the visit of the node's selections gave
        Visited(info1, here, inner) ==
            [seq |-> <<VisitEntry(node, getType(info0), here)>>
                     \o (IF node.name # "" THEN Child("Name", node.name, here) ELSE <<>>)
                     \o (IF node.typeCondition # ""
                         THEN Child("NamedType", node.typeCondition, here)
                         ELSE <<>>)
                     \o (IF node.sels # <<>> THEN Child("SelectionSet", "", here) ELSE <<>>)
                     \o inner.seq,
             info |-> IF node.sels # <<>>
                      THEN leave(leave(inner.info, SelectionSet), node)
                      ELSE leave(info1, node)]
        Entered(info1) ==
            Visited(info1, getType(info1),
                    visitNodes(node.sels, 1, enter(info1, SelectionSet)))
    IN Entered(enter(info0, node))

\* visit(doc, ...) with a new TypeInfo(schema)
visitDocument(document) == visitNodes(document, 1, NewTypeInfo).seq

RECURSIVE collectEnumsForType(_, _, _)
RECURSIVE collectEnumsForFields(_, _, _)

\* the loop over type.getFields() of collectEnumsForType
collectEnumsForFields(fieldMap, i, acc) ==
    IF i > Len(fieldMap)
    THEN acc
    ELSE collectEnumsForFields(fieldMap, i + 1,
             collectEnumsForType(fieldMap[i].type, acc.seen, acc.seenTypes))

collectEnumsForType(type, seen, seenTypes) ==
    CASE type.k = "Enum" ->
           [seen |-> PushNew(seen, type.name), seenTypes |-> seenTypes]
      [] type.k \in {"List", "NonNull"} ->
           collectEnumsForType(type.of[1], seen, seenTypes)
      [] type.k \in {"Object", "Interface", "Input"} /\ type.name \in seenTypes ->
           [seen |-> seen, seenTypes |-> seenTypes]
      [] type.k \in {"Object", "Interface", "Input"} /\ type.name \notin seenTypes ->
           collectEnumsForFields(getFields(type.name), 1,
               [seen |-> seen, seenTypes |-> seenTypes \cup {type.name}])
      [] OTHER -> [seen |-> seen, seenTypes |-> seenTypes]

\* the sequences seqs[lo..hi] one after the other
RECURSIVE Flatten(_, _, _)
Flatten(seqs, lo, hi) ==
    CASE lo > hi -> <<>>
      [] lo = hi -> seqs[lo]
      [] OTHER -> Flatten(seqs, lo, (lo + hi) \div 2)
                      \o Flatten(seqs, (lo + hi) \div 2 + 1, hi)

\* collectEnums were the enums kept in a list that takes a name again
collectEnumsAsList(def, enums) ==
    LET Found(found) == enums \o Flatten(found, 1, Len(found))
        Fields(fields) ==
            Found([i \in 1..Len(fields) |->
                      collectEnumsForType(fields[i].after, <<>>, {}).seen])
    IN Fields(SelectSeq(visitDocument(doc), LAMBDA e : e.kind = "Field"))

\* Add the enums of the fields of the document to the provided enum map.  Each
\* call of collectEnumsForType starts from an empty seenTypes, so what it sets
\* in the map is the same whatever the map holds: the calls are made one by
\* one and their keys set in the order of the calls.
collectEnums(def, enums) ==
    LET Found(found) == PushAllNew(enums, Flatten(found, 1, Len(found)))
        Fields(fields) ==
            Found([i \in 1..Len(fields) |->
                      collectEnumsForType(fields[i].after, <<>>, {}).seen])
    IN Fields(SelectSeq(visitDocument(doc), LAMBDA e : e.kind = "Field"))

\* Add the unions of the document to the provided union map
collectUnions(def, unions) ==
    LET Found(found) == PushAllNew(unions, [i \in 1..Len(found) |-> found[i].name])
        Entries(entries) ==
            Found(SelectSeq([i \in 1..Len(entries) |-> unwrap3(entries[i].before)],
                            LAMBDA t : t.k = "Union"))
    IN Entries(visitDocument(doc))

\* Add the fragments spread in the document to the provided map
collectFragments(def, fragments) ==
    LET Found(found) == PushAllNew(fragments, [i \in 1..Len(found) |-> found[i].name])
    IN Found(SelectSeq(visitDocument(doc), LAMBDA e : e.kind = "FragmentSpread"))

\* print(node) of graphql/language: the text as its tokens.  White space is
\* the tokens " ", "\n" and "  ", one "  " per level of indentation.
\* Arguments and directives, which the nodes here do not have, print nothing;
\* a default value prints as the token "default".
IsWhiteSpace(token) == token \in {" ", "\n", "  "}

Indent(depth) == [i \in 1..depth |-> "  "]

RECURSIVE printType(_)
printType(type) ==
    CASE type.k = "NamedType" -> <<type.name>>
      [] type.k = "ListType" -> <<"[">> \o printType(type.of[1]) \o <<"]">>
      [] type.k = "NonNullType" -> printType(type.of[1]) \o <<"!">>

printVariableDefinition(varDef) ==
    <<"$" \o varDef.name, ":", " ">> \o printType(varDef.type)
        \o (IF varDef.hasDefault THEN <<" ", "=", " ", "default">> ELSE <<>>)

printVariableDefinitions(variableDefinitions) ==
    IF variableDefinitions = <<>>
    THEN <<>>
    ELSE <<"(">>
         \o Flatten([i \in 1..Len(variableDefinitions) |->
                        (IF i > 1 THEN <<",", " ">> ELSE <<>>)
                            \o printVariableDefinition(variableDefinitions[i])],
                    1, Len(variableDefinitions))
         \o <<")">>

RECURSIVE printNode(_, _)

\* '{\n' + indent(join(selections, '\n')) + '\n}'
printBlock(sels, depth) ==
    <<"{", "\n">>
        \o Flatten([i \in 1..Len(sels) |->
                       Indent(depth + 1) \o printNode(sels[i], depth + 1) \o <<"\n">>],
                   1, Len(sels))
        \o Indent(depth) \o <<"}">>

printNode(node, depth) ==
    LET Printed(block) ==
            CASE node.kind = "Field" ->
                   (IF node.alias # "" THEN <<node.alias, ":", " ">> ELSE <<>>)
                       \o <<node.name>>
                       \o (IF node.sels # <<>> THEN <<" ">> \o block ELSE <<>>)
              [] node.kind = "FragmentSpread" -> <<"...", node.name>>
              [] node.kind = "InlineFragment" ->
                   <<"...", " ", "on", " ", node.typeCondition, " ">> \o block
              [] node.kind = "FragmentDefinition" ->
                   <<"fragment", " ", node.name, " ", "on", " ", node.typeCondition, " ">>
                       \o block
              [] node.kind = "OperationDefinition" ->
                   IF node.name = "" /\ node.vars = <<>> /\ node.operation = "query"
                   THEN block
                   ELSE <<node.operation>>
                            \o (IF node.name # "" THEN <<" ", node.name>> ELSE <<>>)
                            \o printVariableDefinitions(node.vars)
                            \o <<" ">> \o block
    IN Printed(IF node.sels = <<>> THEN <<>> ELSE printBlock(node.sels, depth))

print(node) == printNode(node, 0)

\* text.replace(/\s+/g, ' ')
replaceWhiteSpace(text) ==
    LET kept == SelectSeq([i \in 1..Len(text) |-> i],
                          LAMBDA i : \/ ~IsWhiteSpace(text[i])
                                     \/ i = 1
                                     \/ ~IsWhiteSpace(text[i - 1]))
    IN [k \in 1..Len(kept) |->
           IF IsWhiteSpace(text[kept[k]]) THEN " " ELSE text[kept[k]]]

\* query += print(qFragments[name]) + ' ' for every name, query += print(def)
queryText(def, names) ==
    Flatten([i \in 1..Len(names) |-> print(fragmentDefinitionMap[names[i]]) \o <<" ">>],
            1, Len(names))
        \o print(def)

\* Retrieve fragments used in the specified query definition selection set:
\* [err, fragments], the names in insertion order
RECURSIVE queryFragments(_, _)
RECURSIVE queryFragmentsLoop(_, _, _)

queryFragmentsLoop(sels, i, acc) ==
    IF i > Len(sels) \/ acc.err # ""
    THEN acc
    ELSE LET sel == sels[i]
         IN IF sel.kind = "FragmentSpread"
            THEN IF sel.name \notin DOMAIN fragmentDefinitionMap
                 THEN [acc EXCEPT !.err = "TypeError: undefined fragment " \o sel.name]
                 ELSE queryFragmentsLoop(sels, i + 1,
                          queryFragments(fragmentDefinitionMap[sel.name].sels,
                                         PushNew(acc.fragments, sel.name)))
            ELSE queryFragmentsLoop(sels, i + 1, queryFragmentsLoop(sel.sels, 1, acc))

\* queryFragments were the fragments it finds not looked into
RECURSIVE directSpreads(_)
directSpreads(sels) ==
    Flatten([i \in 1..Len(sels) |->
                IF sels[i].kind = "FragmentSpread"
                THEN <<sels[i].name>>
                ELSE directSpreads(sels[i].sels)],
            1, Len(sels))

queryFragmentsDirect(selectionSet, fragments) ==
    [err |-> "", fragments |-> PushAllNew(fragments, directSpreads(selectionSet))]

queryFragments(selectionSet, fragments) ==
    queryFragmentsLoop(selectionSet, 1, [err |-> "", fragments |-> fragments])

\* ("name", encoder) of parameter p were its default value not looked at
parameterEncoderNoDefault(p) ==
    ElmExpr("entry", p.name, <<>>,
        << encoderForInputType(p.schemaType, TRUE, "params." \o p.name) >>)

\* ("name", encoder) of parameter p in Json.Encode.object [ ... ].  With a
\* default value the encoder is
\*   case params.name of Just val -> encoder val ; Nothing -> Json.Encode.null
\* the encoder made without a path
parameterEncoder(p) ==
    LET Defaulted(e) ==
            IF e.k = "throw"
            THEN e
            ELSE ElmExpr("case", "params." \o p.name, <<"val">>,
                         <<e, ElmExpr("Json.Encode.null", "", <<>>, <<>>)>>)
    IN ElmExpr("entry", p.name, <<>>,
           << IF p.hasDefault
              THEN Defaulted(encoderForInputType(p.schemaType, TRUE, "undefined"))
              ELSE encoderForInputType(p.schemaType, TRUE, "params." \o p.name) >>)

\* the Elm declarations of an operation: [err, info, decls, expose], expose
\* being what the call pushes onto translateQuery's expose
walkOperationDefinition(def, info0) ==
    LET name == IF def.name # "" THEN def.name ELSE "AnonymousQuery"
        resultType == UpperFirst(name)
        responseType == IF errorSpec THEN "(Response " \o resultType \o ")" ELSE resultType
        funcName == LowerFirst(name)
        decodeFuncName == LowerFirst(resultType) \o "Decoder"
        methodParam == IF def.operation = "query" THEN verb ELSE ""
        resultTypeName == UpperFirst(resultType)
        failed(msg, inf) == [err |-> msg, info |-> inf, decls |-> <<>>, expose |-> <<>>]
        \* r is what walkSelectionSet returned, qFragments what queryFragments
        \* returned, d what decoderForQuery returned
        Declared(info1, r, parameters, qFragments, encoders, d) ==
            LET parameterTypes == [i \in 1..Len(parameters) |-> parameters[i].type]
                \* print(fragment) of every fragment of qFragments, then print(def),
                \* runs of white space replaced by one space
                query == ElmExpr("graphQLQuery", def.name, qFragments.fragments,
                                 <<ElmExpr("text", "",
                                       replaceWhiteSpace(
                                           queryText(def, qFragments.fragments)),
                                       <<>>)>>)
                elmParamsType ==
                    ElmTypeRecord([i \in 1..Len(parameters) |->
                                      ElmFieldDecl(parameters[i].name, parameters[i].type)], "")
                elmParamsDecl == IF Len(parameters) > 0
                                 THEN <<ElmParameterDecl("params", elmParamsType)>>
                                 ELSE <<>>
                thrown == { i \in 1..Len(encoders) : encoders[i].subs[1].k = "throw" }
            IN CASE getType(info1) = NoType ->
                      failed("GraphQL schema does not define " \o def.operation, info1)
                 [] getType(info1) # NoType /\ def.operation \notin {"query", "mutation"} ->
                      failed("TypeError: undefined is not iterable", info1)
                 [] OTHER ->
                      CASE r.err # "" -> failed(r.err, r.info)
                        [] r.err = "" /\ FirstThrow(parameterTypes) # <<>> ->
                             failed(FirstThrow(parameterTypes)[1].name, r.info)
                        [] OTHER ->
                             CASE qFragments.err # "" -> failed(qFragments.err, r.info)
                               [] qFragments.err = "" /\ thrown # {} ->
                                    failed(encoders[CHOOSE i \in thrown :
                                                       \A j \in thrown : i <= j].subs[1].name,
                                           r.info)
                               [] OTHER ->
                                    IF d.err # ""
                                    THEN failed(d.err, d.info)
                                    ELSE [err |-> "",
                                          info |-> leave(d.info, def),
                                          decls |->
                                             << ElmTypeAliasDecl(resultType,
                                                    ElmTypeRecord(r.fields, ""), <<>>),
                                                ElmFunctionDecl(funcName, elmParamsDecl,
                                                    ElmTypeName("Http.Request " \o responseType),
                                                    ElmExpr("request", name,
                                                        <<def.operation, methodParam>>,
                                                        << query,
                                                           ElmExpr("Json.Encode.object", "",
                                                                   <<>>, encoders),
                                                           DLeaf(decodeFuncName) >>)),
                                                ElmFunctionDecl(decodeFuncName, <<>>,
                                                    ElmTypeName("Decoder " \o resultTypeName),
                                                    d.expr) >>,
                                          expose |-> <<funcName, resultType>>]
        Walked(info1, r, parameters) ==
            Declared(info1, r, parameters,
                     queryFragments(def.sels, <<>>),
                     [i \in 1..Len(parameters) |-> parameterEncoder(parameters[i])],
                     decoderForQuery(def, r.info))
        Variable(varDef, schemaType) ==
            [name |-> varDef.name, type |-> typeToElm(schemaType, FALSE),
             schemaType |-> schemaType, hasDefault |-> varDef.hasDefault]
        Entered(info1) ==
            Walked(info1,
                   walkSelectionSet(def.sels, info1),
                   [i \in 1..Len(def.vars) |->
                       Variable(def.vars[i], typeFromAST(def.vars[i].type))])
    IN Entered(enter(info0, def))

\* the Elm declarations of a fragment: an extensible record alias and its
\* closed form
walkFragmentDefinition(def, info0) ==
    LET resultType == UpperFirst(def.name)
        Walked(r) ==
            IF r.err # ""
            THEN [err |-> r.err, info |-> r.info, decls |-> <<>>, expose |-> <<>>]
            ELSE [err |-> "",
                  info |-> leave(r.info, def),
                  decls |->
                     << ElmTypeAliasDecl(resultType \o "_",
                            applySpreads(ElmTypeRecord(r.fields, "a"), r.spreads), <<"a">>),
                        ElmTypeAliasDecl(resultType,
                            ElmTypeApp(resultType \o "_", <<ElmTypeRecord(<<>>, "")>>),
                            <<>>) >>,
                  expose |-> <<>>]
    IN Walked(walkSelectionSet(def.sels, enter(info0, def)))

\* Pull the fragment definitions out of the provided document
buildFragmentDefinitionMap(document) ==
    LET names == { document[i].name :
                      i \in { j \in 1..Len(document) :
                                 document[j].kind = "FragmentDefinition" } }
    IN [n \in names |->
           document[CHOOSE i \in 1..Len(document) :
                       /\ document[i].kind = "FragmentDefinition"
                       /\ document[i].name = n
                       /\ \A j \in (i + 1)..Len(document) :
                             ~(document[j].kind = "FragmentDefinition"
                               /\ document[j].name = n)]]

----------------------------------------------------------------------------
(* The documents: definitions over the schema, in every order              *)

MaxDefs == 3                \* definitions in a document
MaxRuns == 3                \* documents one run of the program translates
MaxRunDefs == 2             \* definitions in a document of such a run

HeroQuery ==
    OperationDefinition("query", "heroQuery",
        <<VariableDefinition("id", NonNullType(NamedType("ID")), FALSE)>>,
        << Field("hero",
               << Field("id", <<>>), Field("name", <<>>),
                  Field("friends", <<Field("name", <<>>)>>) >>) >>)

Scores ==
    OperationDefinition("query", "Scores", <<>>,
        << Field("scores", <<>>), Field("ids", <<>>), Field("type", <<>>) >>)

Search ==
    OperationDefinition("query", "Search", <<>>,
        << Field("search",
               << Field("__typename", <<>>),
                  InlineFragment("Human", <<Field("name", <<>>), Field("favorite", <<>>)>>),
                  InlineFragment("Droid", <<Field("name", <<>>)>>) >>),
           Field("item",
               << Field("__typename", <<>>),
                  InlineFragment("Droid", <<Field("name", <<>>)>>) >>),
           Field("episode", <<>>) >>)

Blind ==
    OperationDefinition("query", "Blind", <<>>,
        << Field("search", <<InlineFragment("Human", <<Field("name", <<>>)>>)>>) >>)

Nested ==
    OperationDefinition("query", "Nested", <<>>,
        << Field("results",
               << InlineFragment("Human",
                      << Field("name", <<>>),
                         InlineFragment("Human", <<Field("height", <<>>)>>) >>) >>) >>)

Enums ==
    OperationDefinition("query", "Enums",
        << VariableDefinition("ep", NamedType("Episode"), FALSE),
           VariableDefinition("count", NamedType("Int"), TRUE),
           VariableDefinition("ids", ListType(NonNullType(NamedType("ID"))), FALSE) >>,
        << Field("color", <<>>), AliasedField("first", "episode", <<>>) >>)

Dup ==
    OperationDefinition("query", "Dup", <<>>,
        << Field("hero",
               << Field("name", <<>>), Field("name", <<>>),
                  FragmentSpread("nameFrag") >>) >>)

ByFrag ==
    OperationDefinition("query", "ByFrag",
        <<VariableDefinition("review", NamedType("ReviewInput"), TRUE)>>,
        << Field("item",
               << Field("__typename", <<>>),
                  InlineFragment("Droid", <<Field("primaryFunction", <<>>)>>) >>),
           Field("results",
               << Field("__typename", <<>>),
                  FragmentSpread("humanFrag"),
                  InlineFragment("Droid", <<Field("name", <<>>)>>) >>) >>)

nameFrag ==
    FragmentDefinition("nameFrag", "Character",
        << Field("name", <<>>), Field("id", <<>>) >>)

humanFrag ==
    FragmentDefinition("humanFrag", "Human",
        << Field("name", <<>>), Field("height", <<>>) >>)

Deep ==
    OperationDefinition("query", "Deep", <<>>,
        << Field("hero", << FragmentSpread("heroFrag") >>) >>)

heroFrag ==
    FragmentDefinition("heroFrag", "Character",
        << Field("id", <<>>), FragmentSpread("nameFrag") >>)

\* an inline fragment on the type of the field it is selected of
Inline ==
    OperationDefinition("query", "Inline", <<>>,
        << Field("hero",
               << Field("id", <<>>),
                  InlineFragment("Character", <<Field("name", <<>>)>>) >>) >>)

\* a field and an alias that elmSafeName gives one name
Clash ==
    OperationDefinition("query", "Clash", <<>>,
        << Field("hero",
               << Field("__typename", <<>>),
                  AliasedField("typename_", "name", <<>>),
                  Field("id", <<>>) >>) >>)

\* a spread of a fragment no document defines, in an operation and in a fragment
Loose ==
    OperationDefinition("query", "Loose", <<>>,
        << Field("hero", << Field("id", <<>>), FragmentSpread("missing") >>) >>)

looseFrag ==
    FragmentDefinition("looseFrag", "Character",
        << Field("name", <<>>), FragmentSpread("missing") >>)

Definitions == { HeroQuery, Scores, Search, Blind, Nested, Enums, Dup, ByFrag, Deep,
                 Inline, Clash, nameFrag, humanFrag, heroFrag }

RECURSIVE spreadsOf(_)
spreadsOf(sels) ==
    UNION { IF sels[i].kind = "FragmentSpread"
            THEN {sels[i].name}
            ELSE spreadsOf(sels[i].sels) : i \in 1..Len(sels) }

\* what graphql's validate() accepts of a sequence of definitions: names are
\* unique, every spread names a fragment of the document and every fragment
\* of the document is spread
IsValidDocument(document) ==
    LET idx == 1..Len(document)
        fragments == { document[i].name :
                          i \in { j \in idx : document[j].kind = "FragmentDefinition" } }
        spread == UNION { spreadsOf(document[i].sels) : i \in idx }
    IN /\ \A i, j \in idx : i # j => document[i].name # document[j].name
       /\ \E i \in idx : document[i].kind = "OperationDefinition"
       /\ spread = fragments

Documents ==
    { d \in UNION { [1..n -> Definitions] : n \in 1..MaxDefs } : IsValidDocument(d) }

\* the .graphql files of a run of processFiles over several files: documents
\* that fill the enum, union and fragment maps and the export list, and one
\* whose translation throws
RunDefinitions == { Search, Blind, Dup, nameFrag }

RunDocuments ==
    { d \in UNION { [1..n -> RunDefinitions] : n \in 1..MaxRunDefs } : IsValidDocument(d) }

----------------------------------------------------------------------------
(* translateQuery and walkQueryDocument, one step per iteration of the     *)
(* loop over doc.definitions                                               *)

\* expose were it declared outside translateQuery: a call goes on with what
\* the call before it left
exposeKept(left) == left

\* let expose: Array<string> = [] of a call, whatever an earlier call left
newExpose(left) == <<>>

\* let fragmentDefinitionMap = {} of a call, then buildFragmentDefinitionMap(doc)
newFragmentDefinitionMap(left, document) == buildFragmentDefinitionMap(document)

\* the loop over seenFragments of walkQueryDocument
RECURSIVE exposeFragments(_, _)
exposeFragments(names, exposed) ==
    IF names = <<>>
    THEN exposed
    ELSE exposeFragments(Tail(names),
             exposed \o <<UpperFirst(Head(names)), UpperFirst(Head(names)) \o "_">>)

\* the iteration were the enum type pushed as its decoder is
emitEnumPushed(name, acc) ==
    [decls |-> acc.decls \o <<walkEnum(name), decoderForEnum(name)>>,
     expose |-> Append(acc.expose, name \o "(..)")]

\* one iteration of the loop over seenEnums of walkQueryDocument
emitEnum(name, acc) ==
    [decls |-> <<walkEnum(name)>> \o acc.decls \o <<decoderForEnum(name)>>,
     expose |-> Append(acc.expose, name \o "(..)")]

RECURSIVE emitEnums(_, _)
emitEnums(names, acc) ==
    IF names = <<>> THEN acc ELSE emitEnums(Tail(names), emitEnum(Head(names), acc))

\* one iteration of the loop over seenUnions of walkQueryDocument
emitUnion(name, acc) ==
    [decls |-> walkUnion(name) \o acc.decls,
     expose |-> Append(acc.expose, name \o "(..)")]

RECURSIVE emitUnions(_, _)
emitUnions(names, acc) ==
    IF names = <<>> THEN acc ELSE emitUnions(Tail(names), emitUnion(Head(names), acc))

Init ==
    /\ tIn = NoType
    /\ tOut = ElmNull
    /\ tPc = "done"
    /\ stack = <<>>
    /\ call = NoCall
    /\ doc = <<>>
    /\ pc = "idle"
    /\ next = 1
    /\ tinfo = NewTypeInfo
    /\ decls = <<>>
    /\ expose = <<>>
    /\ fragmentDefinitionMap = <<>>
    /\ seenFragments = <<>>
    /\ seenEnums = <<>>
    /\ seenUnions = <<>>
    /\ error = ""
    /\ returned = <<>>
    /\ errorSpec \in BOOLEAN
    /\ runs = 0
    /\ refDoc = <<>>
    /\ refReturned = <<>>

\* translateQuery(uri, doc, schema, verb, errorSpec) up to the loop of
\* walkQueryDocument(doc, new TypeInfo(schema))
translateQuery(document) ==
    /\ pc \in {"idle", "done", "failed"}
    /\ runs < MaxRuns
    /\ runs' = runs + 1
    /\ doc' = document
    /\ expose' = newExpose(expose)
    /\ fragmentDefinitionMap' = newFragmentDefinitionMap(fragmentDefinitionMap, document)
    /\ tinfo' = NewTypeInfo
    /\ decls' = << ElmFunctionDecl("endpointUrl", <<>>, ElmTypeName("String"),
                                   ElmExpr("string", uri, <<>>, <<>>)) >>
    /\ seenFragments' = <<>>
    /\ seenEnums' = <<>>
    /\ seenUnions' = <<>>
    /\ next' = 1
    /\ error' = ""
    /\ returned' = <<>>
    /\ pc' = "walk"
    /\ UNCHANGED <<errorSpec, refDoc, refReturned, typeVars>>

\* what walking definition doc[next] gives
walkDefinition ==
    IF doc[next].kind = "OperationDefinition"
    THEN walkOperationDefinition(doc[next], tinfo)
    ELSE walkFragmentDefinition(doc[next], tinfo)

\* one iteration of the loop over doc.definitions
walkQueryDocumentStep ==
    /\ pc = "walk"
    /\ next <= Len(doc)
    /\ LET Pushed(walked) ==
               /\ walked.err = ""
               /\ decls' = decls \o walked.decls
               /\ expose' = expose \o walked.expose
               /\ tinfo' = walked.info
       IN Pushed(walkDefinition)
    /\ seenFragments' = collectFragments(doc[next], seenFragments)
    /\ seenEnums' = collectEnums(doc[next], seenEnums)
    /\ seenUnions' = collectUnions(doc[next], seenUnions)
    /\ next' = next + 1
    /\ UNCHANGED <<doc, pc, fragmentDefinitionMap, error, returned, errorSpec, runs,
                   refDoc, refReturned, typeVars>>

\* the iteration were its Error caught and what there is returned
walkQueryDocumentThrowsCaught ==
    /\ pc = "walk"
    /\ next <= Len(doc)
    /\ LET Thrown(walked) ==
               /\ walked.err # ""
               /\ error' = walked.err
               /\ tinfo' = walked.info
       IN Thrown(walkDefinition)
    /\ pc' = "failed"
    /\ returned' = <<[decls |-> decls, expose |-> expose]>>
    /\ UNCHANGED <<doc, next, decls, expose, fragmentDefinitionMap, seenFragments,
                   seenEnums, seenUnions, errorSpec, runs, refDoc, refReturned, typeVars>>

\* an iteration that throws: the Error leaves translateQuery and queryToElm
walkQueryDocumentThrows ==
    /\ pc = "walk"
    /\ next <= Len(doc)
    /\ LET Thrown(walked) ==
               /\ walked.err # ""
               /\ error' = walked.err
               /\ tinfo' = walked.info
       IN Thrown(walkDefinition)
    /\ pc' = "failed"
    /\ returned' = <<>>
    /\ UNCHANGED <<doc, next, decls, expose, fragmentDefinitionMap, seenFragments,
                   seenEnums, seenUnions, errorSpec, runs, refDoc, refReturned, typeVars>>

\* the loops over seenFragments, seenEnums and seenUnions, and the return
walkQueryDocumentReturn ==
    /\ pc = "walk"
    /\ next > Len(doc)
    /\ LET Returned(acc) ==
               /\ decls' = acc.decls
               /\ expose' = acc.expose
               /\ returned' = <<[decls |-> acc.decls, expose |-> acc.expose]>>
       IN Returned(emitUnions(seenUnions,
                       emitEnums(seenEnums,
                           [decls |-> decls,
                            expose |-> exposeFragments(seenFragments, expose)])))
    /\ pc' = "done"
    /\ UNCHANGED <<doc, next, tinfo, fragmentDefinitionMap, seenFragments, seenEnums,
                   seenUnions, error, errorSpec, runs, refDoc, refReturned, typeVars>>

\* the caller keeps what a translation returned, to compare a later one with
Remember ==
    /\ pc = "done"
    /\ refDoc = <<>>
    /\ refDoc' = <<doc>>
    /\ refReturned' = returned
    /\ UNCHANGED <<doc, pc, next, tinfo, decls, expose, fragmentDefinitionMap,
                   seenFragments, seenEnums, seenUnions, error, returned, errorSpec,
                   runs, typeVars>>

\* queryToElm of one file
Next ==
    \/ \E document \in Documents : pc = "idle" /\ translateQuery(document)
    \/ walkQueryDocumentStep
    \/ walkQueryDocumentThrows
    \/ walkQueryDocumentReturn

Spec == Init /\ [][Next]_vars

\* processFiles: queryToElm of one file after the other
RunsNext ==
    \/ \E document \in RunDocuments : translateQuery(document)
    \/ walkQueryDocumentStep
    \/ walkQueryDocumentThrows
    \/ walkQueryDocumentReturn
    \/ Remember

RunsSpec == Init /\ [][RunsNext]_vars

\* what parse() gives queryToElm: definitions in any number and order, their
\* names and spreads unchecked
ParsedDefinitions == { Scores, Dup, Loose, nameFrag, looseFrag }

ParsedDocuments == UNION { [1..n -> ParsedDefinitions] : n \in 1..MaxDefs }

\* queryToElm of a text that was parsed and not validated
ParsedNext ==
    \/ \E document \in ParsedDocuments : pc = "idle" /\ translateQuery(document)
    \/ walkQueryDocumentStep
    \/ walkQueryDocumentThrows
    \/ walkQueryDocumentReturn

ParsedSpec == Init /\ [][ParsedNext]_vars

----------------------------------------------------------------------------
(* typeToElm as a function of its argument *)

NamedTypes ==
    { Int_, Float_, Boolean_, ID_, String_, DateTime_, URL_, Episode_, Color_,
      Human_, Droid_, ReviewInput_ }

RECURSIVE WrappedTypes(_)
WrappedTypes(depth) ==
    IF depth = 0
    THEN NamedTypes
    ELSE LET S == WrappedTypes(depth - 1)
         IN S \cup { GraphQLList(t) : t \in S }
              \cup { GraphQLNonNull(t) : t \in { u \in S : u.k # "NonNull" } }

TypeInit ==
    /\ tIn \in WrappedTypes(MaxWrap)
    /\ tOut = ElmNull
    /\ tPc = "input"
    /\ stack = <<>>
    /\ call = NoCall
    /\ doc = <<>>
    /\ pc = "idle"
    /\ next = 1
    /\ tinfo = NewTypeInfo
    /\ decls = <<>>
    /\ expose = <<>>
    /\ fragmentDefinitionMap = <<>>
    /\ seenFragments = <<>>
    /\ seenEnums = <<>>
    /\ seenUnions = <<>>
    /\ error = ""
    /\ returned = <<>>
    /\ errorSpec = FALSE
    /\ runs = 0
    /\ refDoc = <<>>
    /\ refReturned = <<>>

CallTypeToElm ==
    /\ tPc = "input"
    /\ tOut' = typeToElm(tIn, FALSE)
    /\ tPc' = "done"
    /\ UNCHANGED <<tIn, stack, call, runVars>>

TypeNext == CallTypeToElm

TypeSpec == TypeInit /\ [][TypeNext]_vars

----------------------------------------------------------------------------
(* encoderForInputType as a function of its argument *)

InputNamedTypes ==
    { Int_, Float_, Boolean_, ID_, String_, DateTime_, URL_, Episode_, Color_, Unit_,
      ReviewInput_, Human_ }

RECURSIVE WrappedInputTypes(_)
WrappedInputTypes(depth) ==
    IF depth = 0
    THEN InputNamedTypes
    ELSE LET S == WrappedInputTypes(depth - 1)
         IN S \cup { GraphQLList(t) : t \in S }
              \cup { GraphQLNonNull(t) : t \in { u \in S : u.k # "NonNull" } }

EncoderInit ==
    /\ tIn \in WrappedInputTypes(MaxWrap)
    /\ tOut = ExprNull
    /\ tPc = "input"
    /\ stack = <<>>
    /\ call = NoCall
    /\ doc = <<>>
    /\ pc = "idle"
    /\ next = 1
    /\ tinfo = NewTypeInfo
    /\ decls = <<>>
    /\ expose = <<>>
    /\ fragmentDefinitionMap = <<>>
    /\ seenFragments = <<>>
    /\ seenEnums = <<>>
    /\ seenUnions = <<>>
    /\ error = ""
    /\ returned = <<>>
    /\ errorSpec = FALSE
    /\ runs = 0
    /\ refDoc = <<>>
    /\ refReturned = <<>>

\* encoderForInputType(p.schemaType, true, 'params.' + p.name)
CallEncoderForInputType ==
    /\ tPc = "input"
    /\ tOut' = encoderForInputType(tIn, TRUE, "params.value")
    /\ tPc' = "encoded"
    /\ UNCHANGED <<tIn, stack, call, runVars>>

EncoderNext == CallEncoderForInputType

EncoderSpec == EncoderInit /\ [][EncoderNext]_vars

----------------------------------------------------------------------------
(* typeToElm, encoderForInputType and collectEnumsForType call by call:    *)
(* stack holds the calls that have not returned, each with the types its   *)
(* own calls are still to be made for.                                     *)

fieldTypesOf(type) == [i \in 1..Len(getFields(type.name)) |-> getFields(type.name)[i].type]

\* the types typeToElm(type) calls typeToElm for
typeToElmCalls(type) ==
    CASE type.k \in {"NonNull", "List"} -> <<type.of[1]>>
      [] type.k \in {"Object", "Interface", "Input"} -> fieldTypesOf(type)
      [] OTHER -> <<>>

\* the types encoderForInputType(type) calls encoderForInputType for
encoderForInputTypeCalls(type0) ==
    LET type == IF type0.k = "NonNull" THEN type0.of[1] ELSE type0
    IN CASE type.k = "Input" -> fieldTypesOf(type)
         [] type.k = "List" -> <<type.of[1]>>
         [] OTHER -> <<>>

\* the calls were seenTypes not looked at
collectEnumsForTypeCallsUnguarded(type, seenTypes) ==
    CASE type.k \in {"NonNull", "List"} -> <<type.of[1]>>
      [] type.k \in {"Object", "Interface", "Input"} -> fieldTypesOf(type)
      [] OTHER -> <<>>

\* the types collectEnumsForType(type, seen, seenTypes) calls
\* collectEnumsForType for
collectEnumsForTypeCalls(type, seenTypes) ==
    CASE type.k \in {"NonNull", "List"} -> <<type.of[1]>>
      [] type.k \in {"Object", "Interface", "Input"} /\ type.name \notin seenTypes ->
           fieldTypesOf(type)
      [] OTHER -> <<>>

\* the call of call.fn for type, as it starts
Frame(type) ==
    [type |-> type,
     todo |-> CASE call.fn = "typeToElm" -> typeToElmCalls(type)
                [] call.fn = "encoderForInputType" -> encoderForInputTypeCalls(type)
                [] OTHER -> collectEnumsForTypeCalls(type, call.seenTypes)]

\* what the call of call.fn for type sets before its own calls:
\* seen[type.name] = type of an enum and seenTypes[type.name] = type of a type
\* whose fields it goes through.  entered lists those types, once for every
\* loop over getFields()
Started(type) ==
    IF call.fn # "collectEnumsForType"
    THEN call
    ELSE CASE type.k = "Enum" -> [call EXCEPT !.seen = PushNew(@, type.name)]
           [] type.k \in {"Object", "Interface", "Input"}
                 /\ collectEnumsForTypeCalls(type, call.seenTypes) # <<>> ->
                [call EXCEPT !.seenTypes = @ \cup {type.name},
                             !.entered = Append(@, type.name)]
           [] OTHER -> call

CalledFunctions == {"typeToElm", "encoderForInputType", "collectEnumsForType"}

\* the types of variables, which typeToElm and encoderForInputType are
\* called for, and the types of fields, which collectEnumsForType is called for
RECURSIVE Wrapped(_, _)
Wrapped(named, depth) ==
    IF depth = 0
    THEN named
    ELSE LET S == Wrapped(named, depth - 1)
         IN S \cup { GraphQLList(t) : t \in S }
              \cup { GraphQLNonNull(t) : t \in { u \in S : u.k # "NonNull" } }

CalledFor(fn) ==
    IF fn = "collectEnumsForType"
    THEN Wrapped({Query_, Character_, Human_, SearchResult_, Node_, Edge_, Episode_,
                  String_}, MaxWrap)
    ELSE Wrapped({Int_, Unit_, ReviewInput_, TreeInput_}, MaxWrap)

CallInit ==
    /\ call \in { [NoCall EXCEPT !.fn = fn] : fn \in CalledFunctions }
    /\ tIn \in CalledFor(call.fn)
    /\ tOut = ElmNull
    /\ tPc = "input"
    /\ stack = <<>>
    /\ doc = <<>>
    /\ pc = "idle"
    /\ next = 1
    /\ tinfo = NewTypeInfo
    /\ decls = <<>>
    /\ expose = <<>>
    /\ fragmentDefinitionMap = <<>>
    /\ seenFragments = <<>>
    /\ seenEnums = <<>>
    /\ seenUnions = <<>>
    /\ error = ""
    /\ returned = <<>>
    /\ errorSpec = FALSE
    /\ runs = 0
    /\ refDoc = <<>>
    /\ refReturned = <<>>

\* the call from outside: typeToElm(schemaType), encoderForInputType(p.schemaType,
\* ...) of a variable, collectEnumsForType(type, enums) of a field
Call ==
    /\ tPc = "input"
    /\ stack' = <<Frame(tIn)>>
    /\ call' = Started(tIn)
    /\ tPc' = "running"
    /\ UNCHANGED <<tIn, tOut, runVars>>

\* the running call makes its next call
Descend ==
    /\ tPc = "running"
    /\ Last(stack).todo # <<>>
    /\ Len(stack) < MaxDepth
    /\ stack' = Append([stack EXCEPT ![Len(stack)].todo = Tail(@)],
                       Frame(Head(Last(stack).todo)))
    /\ call' = Started(Head(Last(stack).todo))
    /\ UNCHANGED <<tIn, tOut, tPc, runVars>>

\* the running call has made its calls and returns
Return ==
    /\ tPc = "running"
    /\ Last(stack).todo = <<>>
    /\ stack' = Pop(stack)
    /\ tPc' = IF Len(stack) = 1 THEN "returned" ELSE "running"
    /\ UNCHANGED <<tIn, tOut, call, runVars>>

\* a call the stack has no room for: RangeError: Maximum call stack size
\* exceeded, which nothing catches
Overflow ==
    /\ tPc = "running"
    /\ Last(stack).todo # <<>>
    /\ Len(stack) = MaxDepth
    /\ stack' = <<>>
    /\ tPc' = "RangeError"
    /\ UNCHANGED <<tIn, tOut, call, runVars>>

CallNext == Call \/ Descend \/ Return \/ Overflow

CallSpec == CallInit /\ [][CallNext]_vars

\* a call that can go on does
CallFairSpec == CallSpec /\ WF_vars(CallNext)

----------------------------------------------------------------------------
(* Properties.  What they read of the Elm types, the decoders and the      *)
(* declarations.                                                           *)

IsMaybe(t) == t.k = "App" /\ t.name = "Maybe"
IsList(t) == t.k = "App" /\ t.name = "List"
StripNonNull(type) == IF type.k = "NonNull" THEN type.of[1] ELSE type

\* the Maybe and List applications an Elm type starts with, outermost first
RECURSIVE TypeWrappers(_)
TypeWrappers(t) ==
    IF IsMaybe(t) \/ IsList(t) THEN <<t.name>> \o TypeWrappers(t.args[1]) ELSE <<>>

\* the type they are applied to
RECURSIVE TypeCore(_)
TypeCore(t) == IF IsMaybe(t) \/ IsList(t) THEN TypeCore(t.args[1]) ELSE t

\* the maybe and list combinators a field's decoder starts with, outermost
\* first; (field "name" ..) stands anywhere among them
RECURSIVE DecoderWrappers(_)
DecoderWrappers(e) ==
    CASE e.k = "maybe" -> <<"Maybe">> \o DecoderWrappers(e.subs[1])
      [] e.k = "list" -> <<"List">> \o DecoderWrappers(e.subs[1])
      [] e.k = "field" -> DecoderWrappers(e.subs[1])
      [] OTHER -> <<>>

\* the decoder they are applied to
RECURSIVE DecoderCore(_)
DecoderCore(e) ==
    IF e.k \in {"maybe", "list", "field"} THEN DecoderCore(e.subs[1]) ELSE e

\* the JSON field a field's decoder reads
RECURSIVE DecodedField(_)
DecodedField(e) ==
    CASE e.k = "field" -> e.name
      [] e.k \in {"maybe", "list"} -> DecodedField(e.subs[1])
      [] OTHER -> ""

\* the decoder of JSON field name in a chain of field decoders
Decoded(chain, name) ==
    chain[CHOOSE j \in 1..Len(chain) : DecodedField(chain[j]) = name]

IsFragmentAlias(n) ==
    \E i \in 1..Len(decls) :
        decls[i].kind = "Alias" /\ decls[i].name = n /\ decls[i].typeParams # <<>>

AliasNamed(n) ==
    decls[CHOOSE i \in 1..Len(decls) : decls[i].kind = "Alias" /\ decls[i].name = n]

\* the fields of a declared record: its own, then those of the fragment
\* aliases it is an argument of
RECURSIVE RecordFields(_)
RecordFields(t) ==
    CASE t.k = "Record" -> t.fields
      [] t.k = "App" /\ IsFragmentAlias(t.name) ->
           RecordFields(t.args[1]) \o RecordFields(AliasNamed(t.name).type)
      [] OTHER -> <<>>

\* the operations of the declarations: <<i, j>>, decls[i] the alias of an
\* operation's result record, decls[j] its decoder
Operations ==
    { p \in (1..Len(decls)) \X (1..Len(decls)) :
        /\ decls[p[1]].kind = "Alias"
        /\ decls[p[2]].kind = "Function"
        /\ decls[p[2]].name = LowerFirst(decls[p[1]].name) \o "Decoder"
        /\ decls[p[2]].body.k = "map" }

\* the declarations of operation def: <<i, j>> as in Operations
OperationOf(def) ==
    CHOOSE p \in Operations : decls[p[1]].name = UpperFirst(def.name)

RECURSIVE ShapeMatches(_, _)
RECURSIVE FieldsMatch(_, _)

\* every decoder of the chain has the wrappers of the record field it fills
FieldsMatch(fields, chain) ==
    \A j \in 1..Len(chain) : \A i \in 1..Len(fields) :
        fields[i].name = elmSafeName(DecodedField(chain[j]))
            => ShapeMatches(fields[i].type, chain[j])

\* decoder e has the wrappers of type t, and so on in the records and union
\* branches below
ShapeMatches(t, e) ==
    /\ TypeWrappers(t) = DecoderWrappers(e)
    /\ CASE DecoderCore(e).k = "map" ->
              FieldsMatch(RecordFields(TypeCore(t)), DecoderCore(e).subs)
         [] DecoderCore(e).k = "andThen" ->
              \A b \in 1..Len(DecoderCore(e).subs) :
                  DecoderCore(e).subs[b].k = "branch" /\ b <= Len(TypeCore(t).args)
                      => FieldsMatch(RecordFields(TypeCore(t).args[b]),
                                     DecoderCore(e).subs[b].subs[1].subs)
         [] OTHER -> TRUE

\* no record of type t, or below it, declares a field name twice
RECURSIVE DistinctFieldNames(_)
DistinctFieldNames(t) ==
    CASE IsMaybe(t) \/ IsList(t) -> DistinctFieldNames(t.args[1])
      [] t.k = "Record" \/ (t.k = "App" /\ IsFragmentAlias(t.name)) ->
           /\ \A i, j \in 1..Len(RecordFields(t)) :
                 i # j => RecordFields(t)[i].name # RecordFields(t)[j].name
           /\ \A i \in 1..Len(RecordFields(t)) : DistinctFieldNames(RecordFields(t)[i].type)
      [] t.k = "App" /\ ~IsFragmentAlias(t.name) ->
           \A a \in 1..Len(t.args) : DistinctFieldNames(t.args[a])
      [] OTHER -> TRUE

\* no record decoder of e, or below it, reads a field twice
RECURSIVE DistinctDecodedFields(_)
DistinctDecodedFields(e) ==
    CASE e.k = "map" ->
           /\ \A i, j \in 1..Len(e.subs) :
                 i # j => DecodedField(e.subs[i]) # DecodedField(e.subs[j])
           /\ \A i \in 1..Len(e.subs) : DistinctDecodedFields(e.subs[i])
      [] OTHER -> \A i \in 1..Len(e.subs) : DistinctDecodedFields(e.subs[i])

IsTypenameField(sel) == sel.kind = "Field" /\ sel.name = "__typename"

\* node holds a field of a union type whose selection set has no __typename
RECURSIVE LacksTypename(_, _)
LacksTypename(node, info0) ==
    \/ /\ node.kind = "Field"
       /\ node.sels # <<>>
       /\ unwrap3(getType(enter(info0, node))).k = "Union"
       /\ \A i \in 1..Len(node.sels) : ~IsTypenameField(node.sels[i])
    \/ \E i \in 1..Len(node.sels) :
          LacksTypename(node.sels[i], enter(enter(info0, node), SelectionSet))

DocumentLacksTypename == \E i \in 1..Len(doc) : LacksTypename(doc[i], NewTypeInfo)

\* node holds an inline fragment in the selection set of something that is no union
RECURSIVE HasInlineFragmentOffUnion(_, _)
HasInlineFragmentOffUnion(node, info0) ==
    \/ /\ unwrap3(getType(enter(info0, node))).k # "Union"
       /\ \E i \in 1..Len(node.sels) : node.sels[i].kind = "InlineFragment"
    \/ \E i \in 1..Len(node.sels) :
          HasInlineFragmentOffUnion(node.sels[i],
                                    enter(enter(info0, node), SelectionSet))

EnumNames == { "Episode", "Color" }
UnionNames == { "SearchResult", "Item" }
ObjectNames == { "Query", "Character", "Human", "Droid" }

MissingTypenameErrors ==
    { "must query field '__typename' on union types (missing for '" \o u \o "')" :
        u \in UnionNames }

NotImplementedErrors == { "not implemented: InlineFragment on " \o t : t \in ObjectNames }

MemberNames(unionName) ==
    { getTypes(unionName)[i].name : i \in 1..Len(getTypes(unionName)) }

\* the type a union branch is for: an inline fragment's type condition, a
\* spread fragment's
BranchType(sel) ==
    IF sel.kind = "FragmentSpread"
    THEN fragmentDefinitionMap[sel.name].typeCondition
    ELSE sel.typeCondition

Branches(field) ==
    { i \in 1..Len(field.sels) : field.sels[i].kind \in {"InlineFragment", "FragmentSpread"} }

\* field of the query type is a union selection with the discriminator and
\* one branch per member type
IsFullUnionSelection(field) ==
    /\ field.kind = "Field"
    /\ unwrap3(getFieldDefType(Query_, field.name)).k = "Union"
    /\ \E i \in 1..Len(field.sels) : IsTypenameField(field.sels[i])
    /\ \A i \in Branches(field) :
          field.sels[i].kind = "FragmentSpread"
              => field.sels[i].name \in DOMAIN fragmentDefinitionMap
    /\ Cardinality(Branches(field))
          = Len(getTypes(unwrap3(getFieldDefType(Query_, field.name)).name))
    /\ { BranchType(field.sels[i]) : i \in Branches(field) }
          = MemberNames(unwrap3(getFieldDefType(Query_, field.name)).name)

\* the dispatch decoder of operation def for its field
Dispatch(def, field) ==
    DecoderCore(Decoded(decls[OperationOf(def)[2]].body.subs,
                        IF field.alias # "" THEN field.alias ELSE field.name))

IsEnumType(d) == d.kind = "Type" /\ d.name \in EnumNames
IsEnumDecoder(d) ==
    d.kind = "Function" /\ d.name \in { toLowerCase(e) \o "Decoder" : e \in EnumNames }
IsUnionType(d) ==
    d.kind = "Type" /\ d.name \in { walkUnion(u)[1].name : u \in UnionNames }
IsEndpointUrl(d) == d.kind = "Function" /\ d.name = "endpointUrl"
\* a declaration walkOperationDefinition or walkFragmentDefinition made
IsOfDefinition(d) ==
    d.kind = "Alias" \/ (d.kind = "Function" /\ ~IsEnumDecoder(d) /\ ~IsEndpointUrl(d))

Positions(Test(_)) == { i \in 1..Len(decls) : Test(decls[i]) }
Before(A, B) == \A i \in A : \A j \in B : i < j
Names(ds) == [i \in 1..Len(ds) |-> ds[i].name]
Reverse(s) == [i \in 1..Len(s) |-> s[Len(s) + 1 - i]]
Count(s, x) == Cardinality({ i \in 1..Len(s) : s[i] = x })

\* the fields of the document of type named n, under any wrappers
FieldsOfType(n) ==
    SelectSeq(visitDocument(doc),
              LAMBDA e : e.kind = "Field" /\ getNamedType(e.after).name = n)

----------------------------------------------------------------------------
(* typeToElm *)

\* C1: typeToElm mirrors the nesting of lists and non-nulls.  The elements
\* of the Elm list of a list type are Maybe exactly when the schema element
\* type is not NonNull: List(NonNull(Int)) gives a List of Int,
\* NonNull(List(Int)) gives List (Maybe Int), no Maybe around it, and
\* List(Int) gives Maybe (List (Maybe Int)).
C1_ListNestingMirrored ==
    tPc = "done" /\ tOut.k # "Throw" /\ StripNonNull(tIn).k = "List" =>
        /\ IsList(IF IsMaybe(tOut) THEN tOut.args[1] ELSE tOut)
        /\ IsMaybe((IF IsMaybe(tOut) THEN tOut.args[1] ELSE tOut).args[1])
              <=> StripNonNull(tIn).of[1].k # "NonNull"
        /\ tIn.k = "NonNull" => ~IsMaybe(tOut)
        /\ tIn = GraphQLList(Int_)
              => tOut = ElmTypeApp("Maybe", <<ElmTypeApp("List", <<
                            ElmTypeApp("Maybe", <<ElmTypeName("Int")>>)>>)>>)

\* C2: typeToElm(NonNull(T)) is no Maybe, and typeToElm(T) of a nullable T is
\* Maybe applied to typeToElm(NonNull(T)).
C2_NullableIsMaybeOfNonNull ==
    tPc = "done" /\ tOut.k # "Throw" =>
        IF tIn.k = "NonNull"
        THEN ~IsMaybe(tOut)
        ELSE tOut = ElmTypeApp("Maybe", <<typeToElm(GraphQLNonNull(tIn), FALSE)>>)

----------------------------------------------------------------------------
(* A translated document *)

\* C3: in every operation of a translated document, the decoder of every field
\* has the maybe/list wrappers that the field's type has in the declared
\* result record, at every depth.
C3_DecoderWrappersMatchRecord ==
    pc = "done" =>
        \A p \in Operations :
            FieldsMatch(RecordFields(decls[p[1]].type), decls[p[2]].body.subs)

\* C4: no declared record of a translated document has two fields of one
\* name, and no record decoder reads a field twice, whatever the selection
\* sets select twice or select again through a fragment.
C4_OneFieldPerName ==
    pc = "done" =>
        \A p \in Operations :
            /\ DistinctFieldNames(decls[p[1]].type)
            /\ DistinctDecodedFields(decls[p[2]].body)

C6_BranchPerMemberAndFallback ==
    pc = "done" =>
        \A d \in 1..Len(doc) : \A f \in 1..Len(doc[d].sels) :
            doc[d].kind = "OperationDefinition" /\ IsFullUnionSelection(doc[d].sels[f]) =>
                LET dispatch == Dispatch(doc[d], doc[d].sels[f])
                    members == MemberNames(
                        unwrap3(getFieldDefType(Query_, doc[d].sels[f].name)).name)
                    n == Cardinality(members)
                IN /\ dispatch.k = "andThen"
                   /\ Len(dispatch.subs) = n + 1
                   /\ \A b \in 1..n : dispatch.subs[b].k = "branch"
                   /\ { dispatch.subs[b].name : b \in 1..n } = members
                   /\ dispatch.subs[n + 1].k = "fail"

C6_Witness ==
    /\ pc = "done"
    /\ \E d \in 1..Len(doc) : \E f \in 1..Len(doc[d].sels) :
          /\ doc[d].kind = "OperationDefinition"
          /\ IsFullUnionSelection(doc[d].sels[f])
          /\ \E i \in Branches(doc[d].sels[f]) :
                doc[d].sels[f].sels[i].kind = "FragmentSpread"
          /\ Len(Dispatch(doc[d], doc[d].sels[f]).subs) > 2

\* C7: the declarations of a translated document hold at most one type
\* declaration and one decoder per enum, at most one type declaration per
\* union, the export list names each as often as it is declared, and an enum
\* or union that is the type of a field of the document is declared.
C7_OneDeclarationPerEnumAndUnion ==
    pc = "done" =>
        /\ \A e \in EnumNames :
              /\ Cardinality(Positions(LAMBDA d : d.kind = "Type" /\ d.name = e)) <= 1
              /\ Cardinality(Positions(LAMBDA d : d.kind = "Function"
                                          /\ d.name = toLowerCase(e) \o "Decoder"))
                    = Cardinality(Positions(LAMBDA d : d.kind = "Type" /\ d.name = e))
              /\ Count(expose, e \o "(..)")
                    = Cardinality(Positions(LAMBDA d : d.kind = "Type" /\ d.name = e))
              /\ FieldsOfType(e) # <<>>
                    => Cardinality(Positions(LAMBDA d : d.kind = "Type" /\ d.name = e)) = 1
        /\ \A u \in UnionNames :
              /\ Cardinality(Positions(LAMBDA d : d.kind = "Type"
                                          /\ d.name = walkUnion(u)[1].name)) <= 1
              /\ Count(expose, u \o "(..)")
                    = Cardinality(Positions(LAMBDA d : d.kind = "Type"
                                               /\ d.name = walkUnion(u)[1].name))
              /\ FieldsOfType(u) # <<>>
                    => Cardinality(Positions(LAMBDA d : d.kind = "Type"
                                                /\ d.name = walkUnion(u)[1].name)) = 1

C7_Witness ==
    /\ pc = "done"
    /\ Len(doc) >= 2
    /\ \E e \in EnumNames : \E u \in UnionNames :
          /\ Len(FieldsOfType(e)) >= 2
          /\ FieldsOfType(u) # <<>>
          /\ Count(expose, e \o "(..)") = 1
          /\ Count(expose, u \o "(..)") = 1

\* C8: a translation of a document returns what an earlier translation of
\* the same document returned, whatever was translated or failed to translate
\* before and in between; a call starts with an empty export list and the
\* fragments of its own document only.
C8_SameDocumentSameResult ==
    /\ pc = "done" /\ refDoc = <<doc>> => returned = refReturned
    /\ pc = "walk" /\ next = 1 =>
          /\ expose = <<>>
          /\ DOMAIN fragmentDefinitionMap
                = { doc[i].name : i \in { j \in 1..Len(doc) :
                                             doc[j].kind = "FragmentDefinition" } }

C8_Witness ==
    /\ pc = "done"
    /\ refDoc = <<doc>>
    /\ runs >= 3
    /\ returned = refReturned
    /\ DOMAIN fragmentDefinitionMap # {}
    /\ Len(returned[1].expose) >= 5

\* the result record of HeroQuery
HeroRecord ==
    ElmTypeRecord(
        << ElmFieldDecl("hero",
               ElmTypeApp("Maybe", <<
                   ElmTypeRecord(
                       << ElmFieldDecl("id", ElmTypeName("String")),
                          ElmFieldDecl("name", ElmTypeApp("Maybe", <<ElmTypeName("String")>>)),
                          ElmFieldDecl("friends",
                              ElmTypeApp("Maybe", <<
                                  ElmTypeApp("List", <<
                                      ElmTypeRecord(
                                          << ElmFieldDecl("name",
                                                 ElmTypeApp("Maybe",
                                                     <<ElmTypeName("String")>>)) >>,
                                          "") >>) >>)) >>,
                       "") >>)) >>,
        "")

\* its decoder
HeroDecoder ==
    DMap("HeroQuery", <<>>,
        << DField("hero",
               DMaybe(DMap("", <<"id", "name", "friends">>,
                   << DField("id", DLeaf("string")),
                      DMaybe(DField("name", DLeaf("string"))),
                      DField("friends",
                          DMaybe(DList(DMap("", <<"name">>,
                              << DMaybe(DField("name", DLeaf("string"))) >>))))
                   >>))) >>)

\* C9: the translation of query heroQuery($id: ID!) { hero { id name friends
\* { name } } } declares the result record { hero : Maybe { id : String, name
\* : Maybe String, friends : Maybe (List { name : Maybe String }) } }, a
\* request function of one parameter, the record { id : String }, and a
\* decoder of the record's maybe/list nesting.
C9_HeroQueryTranslation ==
    pc = "done" =>
        \A d \in 1..Len(doc) :
            doc[d] = HeroQuery =>
                /\ \E p \in Operations : decls[p[1]].name = "HeroQuery"
                /\ decls[OperationOf(HeroQuery)[1]].type = HeroRecord
                /\ decls[OperationOf(HeroQuery)[2]].body = HeroDecoder
                /\ FieldsMatch(HeroRecord.fields, decls[OperationOf(HeroQuery)[2]].body.subs)
                /\ \E i \in 1..Len(decls) :
                      /\ decls[i].kind = "Function"
                      /\ decls[i].name = "heroQuery"
                      /\ decls[i].params
                            = << ElmParameterDecl("params",
                                     ElmTypeRecord(
                                         <<ElmFieldDecl("id", ElmTypeName("String"))>>,
                                         "")) >>

C9_Witness ==
    /\ pc = "done"
    /\ \E d \in 1..Len(doc) : doc[d] = HeroQuery
    /\ decls[OperationOf(HeroQuery)[1]].type = HeroRecord

----------------------------------------------------------------------------
(* The request of an operation *)

\* the request function declared for operation def
RequestOf(def) ==
    decls[CHOOSE i \in 1..Len(decls) :
             /\ decls[i].kind = "Function"
             /\ decls[i].body.k = "request"
             /\ decls[i].body.name = (IF def.name # "" THEN def.name ELSE "AnonymousQuery")]

\* the tokens of its literal query text
QueryTextOf(def) == RequestOf(def).body.subs[1].subs[1].shape

\* the fragments spread by fragments of the set, and so on
RECURSIVE SpreadClosure(_)
SpreadClosure(names) ==
    LET more == names \cup UNION { spreadsOf(fragmentDefinitionMap[n].sels) : n \in names }
    IN IF more = names THEN names ELSE SpreadClosure(more)

\* the fragments operation def spreads, itself or through fragments
FragmentsReached(def) == SpreadClosure(spreadsOf(def.sels))

\* where the text of a fragment definition starts in a text
FragmentHeads(text) == { i \in 1..Len(text) : text[i] = "fragment" }

\* C11: the literal query text of every operation holds the text of every
\* fragment the operation spreads, itself or through other fragments, once
\* each, and of no other fragment; no white space of it is anything but one
\* space between two tokens that are not white space.
C11_QueryTextHoldsFragmentsReached ==
    pc = "done" =>
        \A d \in 1..Len(doc) :
            doc[d].kind = "OperationDefinition" =>
                /\ { QueryTextOf(doc[d])[i + 2] : i \in FragmentHeads(QueryTextOf(doc[d])) }
                      = FragmentsReached(doc[d])
                /\ Cardinality(FragmentHeads(QueryTextOf(doc[d])))
                      = Cardinality(FragmentsReached(doc[d]))
                /\ \A i \in 1..Len(QueryTextOf(doc[d])) :
                      IsWhiteSpace(QueryTextOf(doc[d])[i]) =>
                          /\ QueryTextOf(doc[d])[i] = " "
                          /\ i > 1
                          /\ ~IsWhiteSpace(QueryTextOf(doc[d])[i - 1])
                /\ SelectSeq(QueryTextOf(doc[d]), LAMBDA t : ~IsWhiteSpace(t))
                      = SelectSeq(queryText(doc[d],
                                      RequestOf(doc[d]).body.subs[1].shape),
                                  LAMBDA t : ~IsWhiteSpace(t))

\* an operation that reaches a fragment through another one only
C11_Witness ==
    /\ pc = "done"
    /\ \E d \in 1..Len(doc) :
          /\ doc[d].kind = "OperationDefinition"
          /\ FragmentsReached(doc[d]) # spreadsOf(doc[d].sels)
          /\ Cardinality(FragmentHeads(QueryTextOf(doc[d]))) = 2
          /\ \E i \in 1..Len(queryText(doc[d], RequestOf(doc[d]).body.subs[1].shape)) :
                queryText(doc[d], RequestOf(doc[d]).body.subs[1].shape)[i] = "\n"

----------------------------------------------------------------------------
(* A translation that fails *)

\* C12: a translation that fails has stopped at the definition whose walk
\* threw, with the Error and with nothing returned: no declarations and no
\* export list, whatever was declared for the definitions before it.
C12_NothingReturnedOnFailure ==
    pc = "failed" =>
        /\ returned = <<>>
        /\ error # ""
        /\ next <= Len(doc)
        /\ walkDefinition.err = error

\* a failure at a later definition, after declarations of an earlier one
C12_Witness ==
    /\ pc = "failed"
    /\ next >= 2
    /\ Len(decls) >= 4
    /\ expose # <<>>
    /\ returned = <<>>

----------------------------------------------------------------------------
(* Fragments *)

\* the fragments spread anywhere in the document
FragmentsSpread == UNION { spreadsOf(doc[d].sels) : d \in 1..Len(doc) }

\* decodeFragFuncName of walkQueryDocument
FragmentDecoderName(n) == LowerFirst(UpperFirst(n)) \o "Decoder"

\* C13: for every fragment spread in a translated document the declarations
\* hold one decoder of the fragment's own, a function named after it.
C13_DecoderPerFragment ==
    pc = "done" =>
        \A n \in FragmentsSpread :
            Cardinality(Positions(LAMBDA d : d.kind = "Function"
                                     /\ d.name = FragmentDecoderName(n))) = 1

----------------------------------------------------------------------------
(* The variables of an operation *)

\* the entries of Json.Encode.object [ ... ] in the request of operation def
ParameterEncodersOf(def) == RequestOf(def).body.subs[2].subs

\* C14: the object of the variables of an operation has one entry per
\* declared variable, in the order of the declarations and keyed by the
\* variable's name.  The entry of a variable with a default value is a case
\* on params.name that gives Json.Encode.null for Nothing; the entry of a
\* nullable variable without one is maybeEncode applied to params.name.
C14_EntryPerVariable ==
    pc = "done" =>
        \A d \in 1..Len(doc) :
            doc[d].kind = "OperationDefinition" =>
                /\ Len(ParameterEncodersOf(doc[d])) = Len(doc[d].vars)
                /\ \A i \in 1..Len(doc[d].vars) :
                      LET entry == ParameterEncodersOf(doc[d])[i]
                          var == doc[d].vars[i]
                      IN /\ entry.k = "entry"
                         /\ entry.name = var.name
                         /\ Len(entry.subs) = 1
                         /\ var.hasDefault =>
                               /\ entry.subs[1].k = "case"
                               /\ entry.subs[1].name = "params." \o var.name
                               /\ entry.subs[1].subs[2].k = "Json.Encode.null"
                         /\ ~var.hasDefault /\ var.type.k # "NonNullType" =>
                               /\ entry.subs[1].k = "maybeEncode"
                               /\ entry.subs[1].name = "params." \o var.name

\* an operation with a nullable variable, one with a default value and a third
C14_Witness ==
    /\ pc = "done"
    /\ \E d \in 1..Len(doc) :
          /\ doc[d].kind = "OperationDefinition"
          /\ Len(ParameterEncodersOf(doc[d])) >= 3
          /\ \E i, j \in 1..Len(doc[d].vars) :
                /\ doc[d].vars[i].hasDefault
                /\ ParameterEncodersOf(doc[d])[i].subs[1].k = "case"
                /\ ~doc[d].vars[j].hasDefault
                /\ ParameterEncodersOf(doc[d])[j].subs[1].k = "maybeEncode"

----------------------------------------------------------------------------
(* Enums on the wire *)

\* the encoder of the named type inside the encoders of its wrappers
RECURSIVE NamedEncoder(_)
NamedEncoder(e) ==
    IF e.k \in {"maybeEncode", "Json.Encode.list"} THEN NamedEncoder(e.subs[1]) ELSE e

\* what the decoder of an enum gives for a wire name: the constructor of the
\* first case of that name
EnumDecode(decoder, wire) ==
    decoder.subs[CHOOSE i \in 1..Len(decoder.subs) :
                    /\ decoder.subs[i].k = "branch"
                    /\ decoder.subs[i].name = wire
                    /\ \A j \in 1..(i - 1) : decoder.subs[j].name # wire].subs[1].name

\* what the encoder of an enum gives for a constructor: Tuple.second of the
\* List.head of the tuples whose Tuple.first is toString of the constructor,
\* "" when there is none
EnumEncode(encoder, constructor) ==
    LET found == SelectSeq(encoder.subs, LAMBDA t : t.name = constructor)
    IN IF found = <<>> THEN "" ELSE found[1].shape[1]

\* C15: for every member of an enum type, the enum's encoder gives the
\* member's wire name for the constructor the enum's decoder gives for that
\* wire name.
C15_EnumRoundTrip ==
    tPc = "encoded" /\ NamedEncoder(tOut).k = "enumEncode" =>
        \A i \in 1..Len(getValues(getNamedType(tIn).name)) :
            EnumEncode(NamedEncoder(tOut),
                       EnumDecode(decoderForEnum(getNamedType(tIn).name).body,
                                  getValues(getNamedType(tIn).name)[i]))
                = getValues(getNamedType(tIn).name)[i]

----------------------------------------------------------------------------
(* Field names as Elm identifiers *)

\* the encoder inside maybeEncode and inside the case on a default value
RECURSIVE InnerEncoder(_)
InnerEncoder(e) ==
    IF e.k \in {"maybeEncode", "case"} THEN InnerEncoder(e.subs[1]) ELSE e

\* the record inside Maybe
RecordOf(t) == IF IsMaybe(t) THEN t.args[1] ELSE t

\* the parameters record of the request function of operation def
ParamsRecordOf(def) == RequestOf(def).params[1].type

\* the values a field of an input object is read from
AccessPrefixes(def) ==
    {"o", "x", "undefined"} \cup { "params." \o def.vars[i].name : i \in 1..Len(def.vars) }

\* C16: a field of an input object is read, in the encoder of a variable,
\* under the name the parameters record declares it with, which is
\* elmSafeName of the GraphQL name: a field named type is declared as type_
\* and read as .type_.
C16_EncoderReadsDeclaredFields ==
    pc = "done" =>
        \A d \in 1..Len(doc) :
            doc[d].kind = "OperationDefinition" =>
                \A i \in 1..Len(doc[d].vars) :
                    LET encoder == InnerEncoder(ParameterEncodersOf(doc[d])[i].subs[1])
                        record == RecordOf(ParamsRecordOf(doc[d]).fields[i].type)
                    IN encoder.k = "Json.Encode.object" =>
                          /\ record.k = "Record"
                          /\ Len(record.fields) = Len(encoder.subs)
                          /\ \A j \in 1..Len(encoder.subs) :
                                /\ record.fields[j].name
                                      = elmSafeName(encoder.subs[j].name)
                                /\ encoder.subs[j].subs[1].name
                                      \in { p \o "." \o record.fields[j].name :
                                               p \in AccessPrefixes(doc[d]) }

----------------------------------------------------------------------------
(* Spreads of fragments the document does not define *)

\* the names spread somewhere in the document that name no fragment of it
UnresolvedSpreads ==
    UNION { spreadsOf(doc[i].sels) : i \in 1..Len(doc) }
        \ { doc[i].name : i \in { j \in 1..Len(doc) : doc[j].kind = "FragmentDefinition" } }

\* C17: while and after a document is translated the fragment map is the one
\* built from the document, and a document that spreads, in an operation or
\* in a fragment definition, a fragment that is not in the map is never
\* translated.
C17_UnresolvedSpreadFails ==
    pc \in {"walk", "done", "failed"} =>
        /\ fragmentDefinitionMap = buildFragmentDefinitionMap(doc)
        /\ UnresolvedSpreads # {} => pc # "done" /\ returned = <<>>

----------------------------------------------------------------------------
(* Inline fragments outside unions *)

DocumentHasInlineFragmentOffUnion ==
    \E i \in 1..Len(doc) : HasInlineFragmentOffUnion(doc[i], NewTypeInfo)

\* C18 as stated: a document with an inline fragment in a selection set
\* that is no union's is never translated, and the Error that ends its
\* translation is the not-implemented error.
C18_AlwaysNotImplementedError ==
    DocumentHasInlineFragmentOffUnion =>
        /\ pc # "done"
        /\ pc = "failed" => error \in NotImplementedErrors /\ returned = <<>>

\* C18: a document with an inline fragment in a selection set that is no
\* union's is never translated and nothing is returned for it.  The Error is
\* the not-implemented error, unless the definition that threw has a union
\* selection without __typename that was walked before the inline fragment
\* was reached: then it is the missing-typename error.
C18_NotImplementedUnlessThrownBefore ==
    DocumentHasInlineFragmentOffUnion =>
        /\ pc # "done"
        /\ pc = "failed" =>
              /\ returned = <<>>
              /\ \/ error \in NotImplementedErrors
                 \/ /\ LacksTypename(doc[next], NewTypeInfo)
                    /\ error \in MissingTypenameErrors

\* the inline fragment of a document whose union selections all have
\* __typename ended the translation
C18_Witness ==
    /\ pc = "failed"
    /\ DocumentHasInlineFragmentOffUnion
    /\ ~DocumentLacksTypename
    /\ error \in NotImplementedErrors
    /\ returned = <<>>

----------------------------------------------------------------------------
(* Recursion over the types of the schema *)

\* the calls that have not returned are for types that differ
CallsDiffer == \A i, j \in 1..Len(stack) : i # j => stack[i].type # stack[j].type

\* C19: the recursion of a translation ends.  typeToElm and
\* encoderForInputType are functions of the type they are called for, so a
\* call that ends never leads to a call for its own type; and no call of
\* them or of collectEnumsForType exhausts the stack.
C19_RecursionEnds ==
    /\ call.fn \in {"typeToElm", "encoderForInputType"} => CallsDiffer
    /\ tPc # "RangeError"

\* the named types reached from the types of S through wrappers and fields
RECURSIVE Reached(_)
Reached(S) ==
    LET T == S \cup UNION { { getNamedType(getFields(t.name)[i].type) :
                                 i \in 1..Len(getFields(t.name)) } : t \in S }
    IN IF T = S THEN S ELSE Reached(T)

EnumsReached(type) == { t.name : t \in { u \in Reached({getNamedType(type)}) : u.k = "Enum" } }

\* C20: a call of collectEnumsForType returns, for a type with a field of
\* its own type and for types with fields of each other's type too.  It goes
\* through the fields of a type name at most once and never exhausts the
\* stack, and when it has returned seen holds the enums reached from the
\* type through wrappers and fields, each once.
C20_CollectEnumsForTypeReturns ==
    /\ [](call.fn = "collectEnumsForType" =>
             /\ tPc # "RangeError"
             /\ \A i, j \in 1..Len(call.entered) :
                   i # j => call.entered[i] # call.entered[j]
             /\ tPc = "returned" =>
                   /\ Range(call.seen) = EnumsReached(tIn)
                   /\ Len(call.seen) = Cardinality(EnumsReached(tIn))
                   /\ call.seen = collectEnumsForType(tIn, <<>>, {}).seen)
    /\ (call.fn = "collectEnumsForType" /\ tPc = "running") ~> (tPc = "returned")

\* the call for a type whose fields lead back to it, met again while running
C20_Witness ==
    /\ call.fn = "collectEnumsForType"
    /\ tPc = "running"
    /\ \E i, j \in 1..Len(stack) :
          /\ i < j
          /\ stack[i].type = stack[j].type
          /\ stack[i].type.k = "Object"
          /\ stack[j].todo = <<>>
    /\ call.seen # <<>>

----------------------------------------------------------------------------
(* The TypeInfo of a translation *)

\* C21: every enter of a node is followed by a leave of it, so a definition
\* walked without an Error leaves the TypeInfo as deep as it found it: empty,
\* as walkQueryDocument was given it, before and after every definition.
C21_TypeInfoLeftAsEntered ==
    pc \in {"walk", "done"} =>
        /\ tinfo.typeStack = <<>>
        /\ tinfo.parentTypeStack = <<>>

----------------------------------------------------------------------------
(* The type of a union selection *)

\* the selections of a union branch: an inline fragment's, a spread fragment's
BranchSelections(sel) ==
    IF sel.kind = "FragmentSpread" THEN fragmentDefinitionMap[sel.name].sels ELSE sel.sels

\* the names the fields a branch selects have in its record
BranchFieldNames(sel) ==
    LET fields == SelectSeq(BranchSelections(sel), LAMBDA s : s.kind = "Field")
    IN [i \in 1..Len(fields) |->
           elmSafeName(IF fields[i].alias # "" THEN fields[i].alias ELSE fields[i].name)]

\* the type operation def declares for its field
ResultTypeOf(def, field) ==
    LET fields == decls[OperationOf(def)[1]].type.fields
        name == elmSafeName(IF field.alias # "" THEN field.alias ELSE field.name)
    IN TypeCore(fields[CHOOSE i \in 1..Len(fields) : fields[i].name = name].type)

\* C22: the type of a field of a union type is the union's name applied to
\* as many records as the union has member types, which is the number of
\* type parameters of its declaration, and the i-th of them is the record of
\* the branch selected for the i-th member type.
C22_ArgumentPerMemberType ==
    pc = "done" =>
        \A d \in 1..Len(doc) : \A f \in 1..Len(doc[d].sels) :
            /\ doc[d].kind = "OperationDefinition"
            /\ doc[d].sels[f].kind = "Field"
            /\ unwrap3(getFieldDefType(Query_, doc[d].sels[f].name)).k = "Union"
            => LET field == doc[d].sels[f]
                   members == getTypes(unwrap3(getFieldDefType(Query_, field.name)).name)
                   app == ResultTypeOf(doc[d], field)
               IN /\ app.k = "App"
                  /\ app.name = unwrap3(getFieldDefType(Query_, field.name)).name
                  /\ Len(app.args) = Len(members)
                  /\ \A i \in 1..Len(members) : \A b \in Branches(field) :
                        BranchType(field.sels[b]) = members[i].name
                            => Names(RecordFields(app.args[i]))
                                  = BranchFieldNames(field.sels[b])

----------------------------------------------------------------------------
(* The decoder of a record *)

\* every record-constructor lambda of decoder e, and of the decoders below
\* it, has one parameter per decoder chained to it, the j-th named as
\* elmSafeName names the JSON field the j-th decoder reads
RECURSIVE LambdasMatch(_)
LambdasMatch(e) ==
    /\ e.k = "map" /\ e.name \notin { d.name : d \in Range(decls) } =>
          /\ Len(e.shape) = Len(e.subs)
          /\ \A j \in 1..Len(e.subs) :
                e.shape[j] = elmSafeName(DecodedField(e.subs[j]))
    /\ \A i \in 1..Len(e.subs) : LambdasMatch(e.subs[i])

\* C23: in the decoder of every operation of a translated document, the
\* decoders chained with apply to the lambda of a record (of a nested object
\* field, of a union branch) are as many as the lambda has parameters and in
\* their order, whatever is aliased, selected twice or spread.
C23_DecoderPerLambdaParameter ==
    pc = "done" =>
        \A p \in Operations : LambdasMatch(decls[p[2]].body)

----------------------------------------------------------------------------
(* The enums a module names *)

\* the type names in an Elm type
RECURSIVE TypeNamesIn(_)
TypeNamesIn(t) ==
    (IF t.k = "Name" THEN {t.name} ELSE {})
        \cup UNION { TypeNamesIn(t.args[i]) : i \in 1..Len(t.args) }
        \cup UNION { TypeNamesIn(t.fields[i].type) : i \in 1..Len(t.fields) }

\* the decoders an expression refers to by name
RECURSIVE LeavesIn(_)
LeavesIn(e) ==
    (IF e.k = "leaf" THEN {e.name} ELSE {})
        \cup UNION { LeavesIn(e.subs[i]) : i \in 1..Len(e.subs) }

\* the type names in the declarations: in the aliases and in the types of
\* the parameters of the functions
TypeNamesDeclared ==
    UNION { TypeNamesIn(decls[i].type)
               \cup UNION { TypeNamesIn(decls[i].params[j].type) :
                               j \in 1..Len(decls[i].params) } :
            i \in { k \in 1..Len(decls) : decls[k].kind \in {"Alias", "Function"} } }

DecodersReferred ==
    UNION { LeavesIn(decls[i].body) :
            i \in { k \in 1..Len(decls) : decls[k].kind = "Function" } }

\* C24: an enum named in a type of the declarations of a translated
\* document (a result record, the parameters record of a request) or whose
\* decoder a decoder refers to has its type and its decoder among the
\* declarations.
C24_EnumsNamedAreDeclared ==
    pc = "done" =>
        \A e \in EnumNames :
            e \in TypeNamesDeclared \/ (toLowerCase(e) \o "Decoder") \in DecodersReferred =>
                /\ \E i \in 1..Len(decls) : decls[i].kind = "Type" /\ decls[i].name = e
                /\ \E i \in 1..Len(decls) :
                      /\ decls[i].kind = "Function"
                      /\ decls[i].name = toLowerCase(e) \o "Decoder"

----------------------------------------------------------------------------
(* Optional values of a variable *)

\* the encoder takes its value as optional: maybeEncode, or a case on Just
\* and Nothing
IsOptionalEncoder(e) == e.k \in {"maybeEncode", "case"}

\* encoder e takes its value as optional exactly when type t is a Maybe, and
\* so for the elements of a list and the fields of an input object below
RECURSIVE OptionalAsTyped(_, _)
OptionalAsTyped(e, t) ==
    /\ IsOptionalEncoder(e) <=> IsMaybe(t)
    /\ LET encoder == InnerEncoder(e)
           type == RecordOf(t)
       IN CASE encoder.k = "Json.Encode.list" ->
                 /\ IsList(type)
                 /\ OptionalAsTyped(encoder.subs[1], type.args[1])
            [] encoder.k = "Json.Encode.object" ->
                 /\ type.k = "Record"
                 /\ Len(type.fields) = Len(encoder.subs)
                 /\ \A j \in 1..Len(encoder.subs) :
                       OptionalAsTyped(encoder.subs[j].subs[1], type.fields[j].type)
            [] OTHER -> TRUE

\* C25: the encoder of every variable of an operation takes the value as
\* optional exactly where the parameters record of the request function
\* has a Maybe: for the variable, for the elements of its lists and for the
\* fields of its input objects.
C25_OptionalWhereMaybe ==
    pc = "done" =>
        \A d \in 1..Len(doc) :
            doc[d].kind = "OperationDefinition" =>
                \A i \in 1..Len(doc[d].vars) :
                    OptionalAsTyped(ParameterEncodersOf(doc[d])[i].subs[1],
                                    ParamsRecordOf(doc[d]).fields[i].type)

----------------------------------------------------------------------------
(* The values an encoder refers to *)

InputFieldNames ==
    { getFields("ReviewInput")[i].name : i \in 1..Len(getFields("ReviewInput")) }

\* the paths of the fields of the values of scope, two levels down
PathsBelow(scope) ==
    LET Below(S) == S \cup { p \o "." \o f : p \in S, f \in InputFieldNames }
    IN Below(Below(scope))

\* every value encoder e refers to is in scope, the path of a field below
\* one that is, or the parameter of a lambda or the variable of a pattern
\* around the reference
RECURSIVE RefersToDefined(_, _)
RefersToDefined(e, scope) ==
    CASE e.k = "maybeEncode" ->
           /\ e.name \in PathsBelow(scope)
           /\ RefersToDefined(e.subs[1], scope \cup {"o"})
      [] e.k = "case" ->
           /\ e.name \in PathsBelow(scope)
           /\ RefersToDefined(e.subs[1], scope \cup {"val"})
      [] e.k = "Json.Encode.list" ->
           /\ e.name \in PathsBelow(scope)
           /\ RefersToDefined(e.subs[1], scope \cup {"x"})
      [] e.k = "Json.Encode.object" ->
           \A j \in 1..Len(e.subs) : RefersToDefined(e.subs[j].subs[1], scope)
      [] e.k = "Json.Encode.null" -> TRUE
      [] OTHER -> e.name \in PathsBelow(scope)

\* C26: every value the encoder of a variable refers to is defined: the
\* variable's params.name, a field below it, or what an enclosing lambda or
\* pattern binds.  The encoder of a variable with a default value is a case
\* on params.name whose Just branch is the encoder of the variable's type.
C26_EncoderValuesDefined ==
    pc = "done" =>
        \A d \in 1..Len(doc) :
            doc[d].kind = "OperationDefinition" =>
                \A i \in 1..Len(doc[d].vars) :
                    RefersToDefined(ParameterEncodersOf(doc[d])[i].subs[1],
                                    {"params." \o doc[d].vars[i].name})

====
